---- MODULE Spec2Model ----
(***************************************************************************)
(* A model of the csv-parser-poc frontend: the demo engine                 *)
(* (services/demo-api.ts), the CSV parser (utils/csv-parser.ts), the CSV   *)
(* export paths (DataPreview.tsx, JsonDataViewer) and the mapping UI       *)
(* (MappingInterface) over the zustand store (parserStore).                *)
(*                                                                         *)
(* Representation.  A JavaScript string is a sequence of one-character     *)
(* strings, so that toLowerCase, replace, includes, split and the regular  *)
(* expressions of the source are computed character by character.  A       *)
(* JavaScript object used as a dictionary (Record<string, T>) is a         *)
(* sequence of [k, v] pairs in key insertion order, which is the order     *)
(* Object.keys / Object.entries / Object.values walk it in (no key of the  *)
(* model is an integer-like string).  Confidence scores are in tenths:     *)
(* 10 is 1.0, 9 is 0.9, 8 is 0.8.                                          *)
(***************************************************************************)
EXTENDS Integers, Sequences, FiniteSets, TLC

VARIABLES
    currentFileData,   \* demo-api.ts: the module-level session object, or NoFileData
    mappings,          \* parserStore: useParserStore.mappings
    selectedSource,    \* MappingInterface: useState selectedSource
    draggedItem,       \* MappingInterface: useState draggedItem
    suggestPending,    \* MappingInterface: suggestMutation.isPending
    component,         \* which MappingInterface is mounted, or "none"
    currentJob,        \* parserStore: useParserStore.currentJob, or NoJob
    validationResults, \* parserStore: useParserStore.validationResults, or NoResults
    activeTab,         \* App: useState activeTab
    selectedError,     \* ValidationDashboard: useState selectedError, or NoIssue
    fixedErrors,       \* ValidationDashboard: useState fixedErrors, a set of keys
    editingCell,       \* ValidationDashboard: useState editingCell, or NoCell
    fixTimers,         \* ValidationDashboard: the pending setTimeout callbacks of handleAiFixAll
    showAiFixer,       \* ValidationDashboard: useState showAiFixer (the full-screen overlay)
    call               \* the engine call made by the last step: its arguments and its result

\* the state of the workflow around the mapping step
appVars ==
    <<currentJob, validationResults, activeTab, selectedError, fixedErrors, editingCell,
      fixTimers, showAiFixer>>

vars ==
    <<currentFileData, mappings, selectedSource, draggedItem, suggestPending, component,
      appVars, call>>

uiVars == <<mappings, selectedSource, draggedItem, suggestPending, component, appVars>>

\* currentJob: null, validationResults: null, selectedError: null, editingCell: null
NoJob == [status |-> "none"]
NoResults == [valid |-> TRUE, errors |-> <<>>, warnings |-> <<>>, none |-> TRUE]
NoIssue == [message |-> "none"]
NoCell == [row |-> -1]

\* the workflow before any upload: the store as created, the upload tab open
appIdle ==
    /\ currentJob = NoJob
    /\ validationResults = NoResults
    /\ activeTab = "upload"
    /\ selectedError = NoIssue
    /\ fixedErrors = {}
    /\ editingCell = NoCell
    /\ fixTimers = {}
    /\ showAiFixer = FALSE

-----------------------------------------------------------------------------
(* Strings                                                                 *)

UpperChars == <<"A","B","C","D","E","F","G","H","I","J","K","L","M",
                "N","O","P","Q","R","S","T","U","V","W","X","Y","Z">>

LowerChars == <<"a","b","c","d","e","f","g","h","i","j","k","l","m",
                "n","o","p","q","r","s","t","u","v","w","x","y","z">>

DigitChars == {"0","1","2","3","4","5","6","7","8","9"}

Range(s) == {s[i] : i \in DOMAIN s}

IsUpper(c) == c \in Range(UpperChars)

IsLower(c) == c \in Range(LowerChars)

IsDigit(c) == c \in DigitChars

\* String.prototype.toLowerCase, on one character
LowerChar(c) ==
    IF IsUpper(c) THEN LowerChars[CHOOSE i \in DOMAIN UpperChars : UpperChars[i] = c] ELSE c

\* String.prototype.toUpperCase, on one character
UpperChar(c) ==
    IF IsLower(c) THEN UpperChars[CHOOSE i \in DOMAIN LowerChars : LowerChars[i] = c] ELSE c

toLowerCase(s) == [i \in DOMAIN s |-> LowerChar(s[i])]

toUpperCase(s) == [i \in DOMAIN s |-> UpperChar(s[i])]

\* the positions (0-based, as in JavaScript) at which sub occurs in s
Occurrences(s, sub) ==
    {i \in 0..(Len(s) - Len(sub)) : SubSeq(s, i + 1, i + Len(sub)) = sub}

\* String.prototype.includes
includes(s, sub) == Occurrences(s, sub) # {}

Min(S) == CHOOSE x \in S : \A y \in S : x <= y

\* const v = e; F(v): e is evaluated once and its value handed to F
Bind(e, F(_)) == CHOOSE y \in {F(v) : v \in {e}} : TRUE

\* String.prototype.replace(pattern: string, replacement): the FIRST occurrence only
replaceFirst(s, pat, rep) ==
    IF Occurrences(s, pat) = {} THEN s
    ELSE LET i == Min(Occurrences(s, pat))
         IN  SubSeq(s, 1, i) \o rep \o SubSeq(s, i + Len(pat) + 1, Len(s))

\* \s of the regular expressions and String.prototype.trim, over the model's alphabet
IsSpace(c) == c \in {" ", "\t", "\n", "\r"}

RECURSIVE trimStart(_)
trimStart(s) == IF s # <<>> /\ IsSpace(Head(s)) THEN trimStart(Tail(s)) ELSE s

RECURSIVE trimEnd(_)
trimEnd(s) ==
    IF s # <<>> /\ IsSpace(s[Len(s)]) THEN trimEnd(SubSeq(s, 1, Len(s) - 1)) ELSE s

trim(s) == trimEnd(trimStart(s))

-----------------------------------------------------------------------------
(* Record<string, T>: a sequence of [k, v] pairs in insertion order        *)

EmptyObj == <<>>

ObjKeys(o) == [i \in DOMAIN o |-> o[i].k]

ObjValues(o) == [i \in DOMAIN o |-> o[i].v]

ObjHas(o, key) == \E i \in DOMAIN o : o[i].k = key

ObjGet(o, key) == o[CHOOSE i \in DOMAIN o : o[i].k = key].v

\* o[key] = val: an existing key keeps its place, a new key is appended
ObjSet(o, key, val) ==
    IF ObjHas(o, key)
    THEN [i \in DOMAIN o |-> IF o[i].k = key THEN [k |-> key, v |-> val] ELSE o[i]]
    ELSE Append(o, [k |-> key, v |-> val])

\* delete o[key]
ObjDelete(o, key) == SelectSeq(o, LAMBDA e : e.k # key)

\* well-formed: no key twice
IsObj(o) == \A i, j \in DOMAIN o : o[i].k = o[j].k => i = j

-----------------------------------------------------------------------------
(* demoApi.suggestMappings                                                 *)

\* the target fields of MappingInterface's targetSchema, and the keywords of the
\* "special cases" of suggestMappings
F_first_name == <<"f", "i", "r", "s", "t", "_", "n", "a", "m", "e">>
F_last_name == <<"l", "a", "s", "t", "_", "n", "a", "m", "e">>
F_email == <<"e", "m", "a", "i", "l">>
F_phone == <<"p", "h", "o", "n", "e">>
F_address == <<"a", "d", "d", "r", "e", "s", "s">>
F_city == <<"c", "i", "t", "y">>
F_state == <<"s", "t", "a", "t", "e">>
F_zip_code == <<"z", "i", "p", "_", "c", "o", "d", "e">>
F_company == <<"c", "o", "m", "p", "a", "n", "y">>
F_department == <<"d", "e", "p", "a", "r", "t", "m", "e", "n", "t">>

K_mail == <<"m", "a", "i", "l">>
K_phone == <<"p", "h", "o", "n", "e">>
K_mobile == <<"m", "o", "b", "i", "l", "e">>
K_first == <<"f", "i", "r", "s", "t">>
K_last == <<"l", "a", "s", "t">>
K_street == <<"s", "t", "r", "e", "e", "t">>
K_addr == <<"a", "d", "d", "r">>
K_zip == <<"z", "i", "p">>
K_postal == <<"p", "o", "s", "t", "a", "l">>

\* MappingInterface: const targetSchema (its keys, in declaration order)
targetSchema ==
    <<F_first_name, F_last_name, F_email, F_phone, F_address,
      F_city, F_state, F_zip_code, F_company, F_department>>

ScoreExact == 10
ScoreKeyword == 9
ScorePartial == 8

\* header.toLowerCase().replace(/[^a-z0-9]/g, '')
normalizedHeader(header) ==
    SelectSeq(toLowerCase(header), LAMBDA c : IsLower(c) \/ IsDigit(c))

\* field.toLowerCase().replace(/_/g, '')
normalizedField(field) == SelectSeq(toLowerCase(field), LAMBDA c : c # "_")

\* the condition of the "Special cases" branch
specialCase(nh, field) ==
    \/ includes(nh, K_mail) /\ field = F_email
    \/ includes(nh, K_phone) /\ field = F_phone
    \/ includes(nh, K_mobile) /\ field = F_phone
    \/ includes(nh, K_first) /\ field = F_first_name
    \/ includes(nh, K_last) /\ field = F_last_name
    \/ includes(nh, K_street) /\ field = F_address
    \/ includes(nh, K_addr) /\ field = F_address
    \/ includes(nh, K_zip) /\ field = F_zip_code
    \/ includes(nh, K_postal) /\ field = F_zip_code

\* let bestMatch = null; let bestScore = 0.  The empty string stands for null:
\* both are falsy in `if (bestMatch)`.
NoBest == [bestMatch |-> <<>>, bestScore |-> 0]

\* one turn of targetFields.forEach(field => ...): the if / else-if chain
scoreField(best, nh, field) ==
    LET nf == normalizedField(field)
    IN  IF nh = nf
        THEN [bestMatch |-> field, bestScore |-> ScoreExact]
        ELSE IF includes(nh, nf) \/ includes(nf, nh)
        THEN IF ScorePartial > best.bestScore
             THEN [bestMatch |-> field, bestScore |-> ScorePartial]
             ELSE best
        ELSE IF specialCase(nh, field)
        THEN [bestMatch |-> field, bestScore |-> ScoreKeyword]
        ELSE best

RECURSIVE scoreFields(_, _, _)
scoreFields(best, nh, targetFields) ==
    IF targetFields = <<>> THEN best
    ELSE scoreFields(scoreField(best, nh, Head(targetFields)), nh, Tail(targetFields))

\* a reasoning text that tells exact from not exact only
reasoningForTwoWay(bestScore) ==
    IF bestScore = ScoreExact THEN "Exact match found"
    ELSE "Partial match with good confidence"

reasoningFor(bestScore) ==
    IF bestScore = ScoreExact THEN "Exact match found"
    ELSE IF bestScore >= ScoreKeyword THEN "High confidence match based on field name"
    ELSE "Partial match with good confidence"

\* a turn that maps a header without a match to the first field of the schema
mapHeaderDefault(acc, header, targetFields) ==
    LET best == scoreFields(NoBest, normalizedHeader(header), targetFields)
        pick == IF best.bestMatch # <<>> \/ targetFields = <<>> THEN best
                ELSE [bestMatch |-> targetFields[1], bestScore |-> ScorePartial]
    IN  IF pick.bestMatch # <<>>
        THEN ObjSet(acc, header,
                    [source_column |-> header,
                     target_field |-> pick.bestMatch,
                     confidence |-> pick.bestScore,
                     reasoning |-> reasoningFor(pick.bestScore)])
        ELSE acc

\* one turn of headers.forEach(header => ...)
mapHeader(acc, header, targetFields) ==
    LET best == scoreFields(NoBest, normalizedHeader(header), targetFields)
    IN  IF best.bestMatch # <<>>
        THEN ObjSet(acc, header,
                    [source_column |-> header,
                     target_field |-> best.bestMatch,
                     confidence |-> best.bestScore,
                     reasoning |-> reasoningFor(best.bestScore)])
        ELSE acc

RECURSIVE mapHeaders(_, _, _)
mapHeaders(acc, headers, targetFields) ==
    IF headers = <<>> THEN acc
    ELSE mapHeaders(mapHeader(acc, Head(headers), targetFields), Tail(headers), targetFields)

\* the `mappings` object suggestMappings builds and returns
suggestedMappings(headers, targetFields) == mapHeaders(EmptyObj, headers, targetFields)

-----------------------------------------------------------------------------
(* The session object of demo-api.ts                                       *)

\* let currentFileData = null
NoFileData == [loaded |-> FALSE]

FileData(h, d, m, c) ==
    [loaded |-> TRUE, headers |-> h, data |-> d, mappings |-> m, cleanedData |-> c]

\* if (currentFileData) { currentFileData.mappings = m }
storeMappings(fd, m) == IF fd.loaded THEN [fd EXCEPT !.mappings = m] ELSE fd

NoCall == [op |-> "none"]

\* demoApi.suggestMappings(headers, sampleData, targetSchema): the whole call
suggestMappings(headers, schema) ==
    LET m == suggestedMappings(headers, schema)
    IN  /\ currentFileData' = storeMappings(currentFileData, m)
        /\ call' = [op |-> "suggestMappings", headers |-> headers, targetSchema |-> schema,
                    result |-> [mappings |-> m, status |-> "success"]]

-----------------------------------------------------------------------------
(* demoApi.cleanData                                                       *)

T_gmial == <<"@", "g", "m", "i", "a", "l", ".", "c", "o", "m">>
T_gmai == <<"@", "g", "m", "a", "i", ".", "c", "o", "m">>
T_gmal == <<"@", "g", "m", "a", "l", ".", "c", "o", "m">>
T_yaho == <<"@", "y", "a", "h", "o", ".", "c", "o", "m">>
T_yahooo == <<"@", "y", "a", "h", "o", "o", "o", ".", "c", "o", "m">>
T_hotmial == <<"@", "h", "o", "t", "m", "i", "a", "l", ".", "c", "o", "m">>
T_hotmai == <<"@", "h", "o", "t", "m", "a", "i", ".", "c", "o", "m">>
T_outloo == <<"@", "o", "u", "t", "l", "o", "o", ".", "c", "o", "m">>
T_outlok == <<"@", "o", "u", "t", "l", "o", "k", ".", "c", "o", "m">>
D_gmail == <<"@", "g", "m", "a", "i", "l", ".", "c", "o", "m">>
D_yahoo == <<"@", "y", "a", "h", "o", "o", ".", "c", "o", "m">>
D_hotmail == <<"@", "h", "o", "t", "m", "a", "i", "l", ".", "c", "o", "m">>
D_outlook == <<"@", "o", "u", "t", "l", "o", "o", "k", ".", "c", "o", "m">>

\* the chain of .replace(typo, domain) calls, in source order
emailTypos ==
    <<<<T_gmial, D_gmail>>, <<T_gmai, D_gmail>>, <<T_gmal, D_gmail>>,
      <<T_yaho, D_yahoo>>, <<T_yahooo, D_yahoo>>,
      <<T_hotmial, D_hotmail>>, <<T_hotmai, D_hotmail>>,
      <<T_outloo, D_outlook>>, <<T_outlok, D_outlook>>>>

RECURSIVE replaceChain(_, _)
replaceChain(s, chain) ==
    IF chain = <<>> THEN s
    ELSE replaceChain(replaceFirst(s, Head(chain)[1], Head(chain)[2]), Tail(chain))

\* cleanedValue.toLowerCase().replace(...).replace(...)...
fixEmail(s) == replaceChain(toLowerCase(s), emailTypos)

PhoneDigits == 10

\* cleanedValue.replace(/\D/g, '')
digitsOf(s) == SelectSeq(s, IsDigit)

\* a formatter that leaves out the country prefix
formatPhoneNoPrefix(digits) ==
    SubSeq(digits, 1, 3) \o <<"-">> \o SubSeq(digits, 4, 6) \o <<"-">> \o SubSeq(digits, 7, Len(digits))

\* `+1-${digits.slice(0, 3)}-${digits.slice(3, 6)}-${digits.slice(6)}`
formatPhone(digits) ==
    <<"+", "1", "-">> \o SubSeq(digits, 1, 3) \o <<"-">> \o SubSeq(digits, 4, 6)
        \o <<"-">> \o SubSeq(digits, 7, Len(digits))

\* String.prototype.split(' ')
RECURSIVE splitOn(_, _)
splitOn(s, sep) ==
    IF \A i \in DOMAIN s : s[i] # sep THEN <<s>>
    ELSE LET i == Min({j \in DOMAIN s : s[j] = sep})
         IN  <<SubSeq(s, 1, i - 1)>> \o splitOn(SubSeq(s, i + 1, Len(s)), sep)

\* Array.prototype.join(' ')
RECURSIVE joinWith(_, _)
joinWith(parts, sep) ==
    IF parts = <<>> THEN <<>>
    ELSE IF Len(parts) = 1 THEN parts[1]
    ELSE parts[1] \o <<sep>> \o joinWith(Tail(parts), sep)

\* word.charAt(0).toUpperCase() + word.slice(1).toLowerCase()
capitalize(word) ==
    IF word = <<>> THEN <<>>
    ELSE <<UpperChar(word[1])>> \o toLowerCase(Tail(word))

\* cleanedValue.split(' ').map(capitalize).join(' ')
properCase(s) ==
    LET words == splitOn(s, " ")
    IN  joinWith([i \in DOMAIN words |-> capitalize(words[i])], " ")

\* row[sourceColumn] || ''
cellOf(row, sourceColumn) == IF ObjHas(row, sourceColumn) THEN ObjGet(row, sourceColumn) ELSE <<>>

\* const value = row[sourceColumn] || ''; let cleanedValue = String(value).trim()
startCell(value) ==
    [value |-> value, cleanedValue |-> trim(value), email |-> FALSE, phone |-> FALSE,
     names |-> FALSE, locations |-> FALSE, companies |-> FALSE]

\* if (targetField === 'email') { ... }
cleanEmail(st, targetField) ==
    IF targetField = F_email
    THEN Bind(fixEmail(st.cleanedValue),
              LAMBDA v : [st EXCEPT !.cleanedValue = v, !.email = (v # st.value)])
    ELSE st

\* if (targetField === 'phone') { ... if (digits.length === 10) { ... } }
cleanPhone(st, targetField) ==
    IF targetField = F_phone /\ Len(digitsOf(st.cleanedValue)) = PhoneDigits
    THEN Bind(formatPhone(digitsOf(st.cleanedValue)),
              LAMBDA v : [st EXCEPT !.cleanedValue = v, !.phone = (v # st.value)])
    ELSE st

\* the three proper-case blocks: names, city/state, company
cleanProper(st, applies, counter) ==
    IF applies
    THEN Bind(properCase(st.cleanedValue),
              LAMBDA v : [st EXCEPT !.cleanedValue = v, ![counter] = (v # st.value)])
    ELSE st

\* the body of Object.entries(mappingsToUse).forEach for one cell: the cleaned
\* value and which counters the cell increments
cleanCell(value, targetField) ==
    Bind(startCell(value), LAMBDA s0 :
    Bind(cleanEmail(s0, targetField), LAMBDA s1 :
    Bind(cleanPhone(s1, targetField), LAMBDA s2 :
    Bind(cleanProper(s2, targetField \in {F_first_name, F_last_name}, "names"), LAMBDA s3 :
    Bind(cleanProper(s3, targetField \in {F_city, F_state}, "locations"), LAMBDA s4 :
         cleanProper(s4, targetField = F_company, "companies"))))))

\* const changes = {}; let totalChanges = 0.  A counter at 0 is a key the
\* `changes` object does not have.
NoChanges ==
    [email |-> 0, phone |-> 0, names |-> 0, locations |-> 0, companies |-> 0, totalChanges |-> 0]

Bit(b) == IF b THEN 1 ELSE 0

\* a count that leaves totalChanges++ out of the phone branch
countCellNoPhoneTotal(ch, c) ==
    [email |-> ch.email + Bit(c.email),
     phone |-> ch.phone + Bit(c.phone),
     names |-> ch.names + Bit(c.names),
     locations |-> ch.locations + Bit(c.locations),
     companies |-> ch.companies + Bit(c.companies),
     totalChanges |-> ch.totalChanges + Bit(c.email) + Bit(c.names)
                         + Bit(c.locations) + Bit(c.companies)]

\* changes.x = (changes.x || 0) + 1; totalChanges++, for each counter the cell hits
countCell(ch, c) ==
    [email |-> ch.email + Bit(c.email),
     phone |-> ch.phone + Bit(c.phone),
     names |-> ch.names + Bit(c.names),
     locations |-> ch.locations + Bit(c.locations),
     companies |-> ch.companies + Bit(c.companies),
     totalChanges |-> ch.totalChanges + Bit(c.email) + Bit(c.phone) + Bit(c.names)
                         + Bit(c.locations) + Bit(c.companies)]

\* a turn that keeps the value a target field already has
cleanEntryKeepFirst(acc, row, e) ==
    Bind(cleanCell(cellOf(row, e.k), e.v.target_field),
         LAMBDA c : [cleanedRow |-> IF ObjHas(acc.cleanedRow, e.v.target_field)
                                    THEN acc.cleanedRow
                                    ELSE ObjSet(acc.cleanedRow, e.v.target_field, c.cleanedValue),
                     changes |-> countCell(acc.changes, c)])

\* one turn of Object.entries(mappingsToUse).forEach over a row: e is the entry
cleanEntry(acc, row, e) ==
    Bind(cleanCell(cellOf(row, e.k), e.v.target_field),
         LAMBDA c : [cleanedRow |-> ObjSet(acc.cleanedRow, e.v.target_field, c.cleanedValue),
                     changes |-> countCell(acc.changes, c)])

\* Object.entries(mappingsToUse).forEach(...) over one row: acc is
\* [cleanedRow, changes]
RECURSIVE cleanRow(_, _, _)
cleanRow(acc, row, entries) ==
    IF entries = <<>> THEN acc
    ELSE Bind(acc, LAMBDA a :
         Bind(cleanEntry(a, row, Head(entries)), LAMBDA n :
              cleanRow(n, row, Tail(entries))))

\* dataToClean.forEach(row => ...): acc is [cleanedData, changes]
RECURSIVE cleanRows(_, _, _)
cleanRows(acc, rows, mappingsToUse) ==
    IF rows = <<>> THEN acc
    ELSE Bind(acc, LAMBDA a :
         Bind(cleanRow([cleanedRow |-> EmptyObj, changes |-> a.changes],
                       Head(rows), mappingsToUse), LAMBDA r :
              cleanRows([cleanedData |-> Append(a.cleanedData, r.cleanedRow),
                         changes |-> r.changes],
                        Tail(rows), mappingsToUse)))

\* data.length > 0 ? data : (currentFileData?.data || [])
dataOrSession(fd, data) == IF Len(data) > 0 THEN data ELSE IF fd.loaded THEN fd.data ELSE <<>>

\* Object.keys(mappings).length > 0 ? mappings : (currentFileData?.mappings || {})
mappingsOrSession(fd, m) ==
    IF Len(m) > 0 THEN m ELSE IF fd.loaded THEN fd.mappings ELSE EmptyObj

\* what cleanData returns when the session object is fd
cleanResult(fd, data, m) ==
    Bind(cleanRows([cleanedData |-> <<>>, changes |-> NoChanges],
                   dataOrSession(fd, data), mappingsOrSession(fd, m)),
         LAMBDA r : [data |-> r.cleanedData,
                     changes |-> [c \in {"email", "phone", "names", "locations", "companies"}
                                      |-> r.changes[c]],
                     total_changes |-> r.changes.totalChanges])

\* a store that writes the cleaned rows over the original rows
storeCleanedOverData(fd, cleaned) == IF fd.loaded THEN [fd EXCEPT !.data = cleaned] ELSE fd

\* if (currentFileData) { currentFileData.cleanedData = cleanedData }
storeCleaned(fd, cleaned) == IF fd.loaded THEN [fd EXCEPT !.cleanedData = cleaned] ELSE fd

\* demoApi.cleanData(jobId, data, mappings): the whole call
cleanData(data, m) ==
    \E r \in {cleanResult(currentFileData, data, m)} :
        /\ currentFileData' = storeCleaned(currentFileData, r.data)
        /\ call' = [op |-> "cleanData", data |-> data, mappings |-> m, result |-> r]

-----------------------------------------------------------------------------
(* demoApi.validateData                                                    *)

W_email == <<"e", "m", "a", "i", "l">>
W_phone == <<"p", "h", "o", "n", "e">>
W_mobile == <<"m", "o", "b", "i", "l", "e">>
W_name == <<"n", "a", "m", "e">>
W_zip == <<"z", "i", "p">>
W_postal == <<"p", "o", "s", "t", "a", "l">>

\* [^\s@]
IsLocalChar(c) == ~IsSpace(c) /\ c # "@"

\* a phone pattern that takes digits only: /^\d+$/
phoneRegexDigitsOnly(s) == s # <<>> /\ \A i \in DOMAIN s : IsDigit(s[i])

\* an email pattern that asks for the "@" only: /^[^\s@]+@[^\s@]+$/
emailRegexNoDot(s) ==
    \E at \in DOMAIN s :
        /\ s[at] = "@"
        /\ 1 < at /\ at < Len(s)
        /\ \A i \in DOMAIN s : i # at => IsLocalChar(s[i])

\* /^[^\s@]+@[^\s@]+\.[^\s@]+$/.test(s)
emailRegex(s) ==
    \E at \in DOMAIN s, dot \in DOMAIN s :
        /\ s[at] = "@"
        /\ s[dot] = "."
        /\ 1 < at /\ at + 1 < dot /\ dot < Len(s)
        /\ \A i \in DOMAIN s : i # at => IsLocalChar(s[i])

\* /^[\d\s\-\+\(\)]+$/.test(s)
phoneRegex(s) ==
    /\ s # <<>>
    /\ \A i \in DOMAIN s : IsDigit(s[i]) \/ IsSpace(s[i]) \/ s[i] \in {"-", "+", "(", ")"}

ZipDigits == 5
ZipPlusDigits == 4

\* /^\d{5}(-\d{4})?$/.test(s)
zipRegex(s) ==
    \/ Len(s) = ZipDigits /\ \A i \in DOMAIN s : IsDigit(s[i])
    \/ /\ Len(s) = ZipDigits + 1 + ZipPlusDigits
       /\ s[ZipDigits + 1] = "-"
       /\ \A i \in DOMAIN s : i # ZipDigits + 1 => IsDigit(s[i])

issue(rowIndex, column, strValue, ruleType, severity, message) ==
    [row_index |-> rowIndex, column |-> column, value |-> strValue,
     rule |-> [rule_type |-> ruleType, severity |-> severity], message |-> message]

\* an add that does not look for the element first
setAddAgain(seq, x) == Append(seq, x)

\* Set.prototype.add on a Set kept in insertion order
setAdd(seq, x) == IF x \in Range(seq) THEN seq ELSE Append(seq, x)

pushError(acc, i) ==
    [acc EXCEPT !.errors = Append(@, i), !.errorColumns = setAdd(@, i.column)]

pushWarning(acc, i) ==
    [acc EXCEPT !.warnings = Append(@, i), !.warningColumns = setAdd(@, i.column)]

MinPhoneDigits == 10

\* the body of Object.entries(row).forEach(([column, value]) => ...): four rules in turn
validateCell(acc, rowIndex, column, value) ==
    LET strValue == trim(value)
        col == toLowerCase(column)
        a1 == IF includes(col, W_email) /\ strValue # <<>> /\ ~emailRegex(strValue)
              THEN pushError(acc, issue(rowIndex, column, strValue, "format", "error",
                                        "Invalid email format"))
              ELSE acc
        isPhoneCol == includes(col, W_phone) \/ includes(col, W_mobile)
        a2 == IF isPhoneCol /\ strValue # <<>> /\ ~phoneRegex(strValue)
              THEN pushError(a1, issue(rowIndex, column, strValue, "format", "error",
                                       "Invalid phone number format"))
              ELSE IF isPhoneCol /\ strValue # <<>> /\ Len(digitsOf(strValue)) < MinPhoneDigits
              THEN pushWarning(a1, issue(rowIndex, column, strValue, "format", "warning",
                                         "Phone number seems incomplete"))
              ELSE a1
        a3 == IF strValue = <<>> /\ (includes(col, W_name) \/ includes(col, W_email))
              THEN pushWarning(a2, issue(rowIndex, column, strValue, "required", "warning",
                                         "Required field is empty"))
              ELSE a2
        a4 == IF (includes(col, W_zip) \/ includes(col, W_postal))
                   /\ strValue # <<>> /\ ~zipRegex(strValue)
              THEN pushWarning(a3, issue(rowIndex, column, strValue, "format", "warning",
                                         "Invalid ZIP code format"))
              ELSE a3
    IN  a4

RECURSIVE validateRow(_, _, _, _)
validateRow(acc, rowIndex, row, j) ==
    IF j > Len(row) THEN acc
    ELSE validateRow(validateCell(acc, rowIndex, row[j].k, row[j].v), rowIndex, row, j + 1)

\* dataToValidate.forEach((row, rowIndex) => ...); i is 1-based, rowIndex is i - 1
RECURSIVE validateRows(_, _, _)
validateRows(acc, rows, i) ==
    IF i > Len(rows) THEN acc
    ELSE validateRows(validateRow(acc, i - 1, rows[i], 1), rows, i + 1)

\* what validateData returns when the session object is fd
validateResult(fd, data) ==
    LET dataToValidate == dataOrSession(fd, data)
        r == validateRows([errors |-> <<>>, warnings |-> <<>>,
                           errorColumns |-> <<>>, warningColumns |-> <<>>],
                          dataToValidate, 1)
    IN  [valid |-> Len(r.errors) = 0,
         errors |-> r.errors,
         warnings |-> r.warnings,
         summary |-> [total_rows |-> Len(dataToValidate),
                      total_columns |-> IF dataToValidate = <<>> THEN 0
                                        ELSE Len(dataToValidate[1]),
                      errors_count |-> Len(r.errors),
                      warnings_count |-> Len(r.warnings),
                      error_columns |-> r.errorColumns,
                      warning_columns |-> r.warningColumns]]

\* demoApi.validateData(jobId, data): the whole call
validateData(data) ==
    /\ call' = [op |-> "validateData", data |-> data,
                result |-> validateResult(currentFileData, data)]
    /\ UNCHANGED currentFileData

\* demoApi.saveMappings(jobId, mappings): the whole call
saveMappings(m) ==
    /\ currentFileData' = storeMappings(currentFileData, m)
    /\ call' = [op |-> "saveMappings", mappings |-> m, result |-> [status |-> "success"]]

\* demoApi.resetData()
resetData ==
    /\ currentFileData' = NoFileData
    /\ call' = [op |-> "resetData"]

-----------------------------------------------------------------------------
(* CSV: parseCSV / parseCSVLine (csv-parser.ts) and the CSV writers        *)

\* text.split(/\r?\n/): split at "\n", a "\r" just before it belongs to the separator
splitLines(text) ==
    LET parts == splitOn(text, "\n")
    IN  [i \in DOMAIN parts |->
            IF i < Len(parts) /\ parts[i] # <<>> /\ parts[i][Len(parts[i])] = "\r"
            THEN SubSeq(parts[i], 1, Len(parts[i]) - 1)
            ELSE parts[i]]

\* the for loop of parseCSVLine from (1-based) position i on
RECURSIVE parseCSVLineFrom(_, _, _, _, _)
parseCSVLineFrom(line, i, result, current, inQuotes) ==
    IF i > Len(line) THEN Append(result, trim(current))
    ELSE IF line[i] = "\""
    THEN IF inQuotes /\ i + 1 <= Len(line) /\ line[i + 1] = "\""
         THEN parseCSVLineFrom(line, i + 2, result, Append(current, "\""), inQuotes)
         ELSE parseCSVLineFrom(line, i + 1, result, current, ~inQuotes)
    ELSE IF line[i] = "," /\ ~inQuotes
    THEN parseCSVLineFrom(line, i + 1, Append(result, trim(current)), <<>>, inQuotes)
    ELSE parseCSVLineFrom(line, i + 1, result, Append(current, line[i]), inQuotes)

parseCSVLine(line) == parseCSVLineFrom(line, 1, <<>>, <<>>, FALSE)

\* headers.forEach((header, index) => { row[header] = values[index] })
RECURSIVE rowOf(_, _, _, _)
rowOf(row, headers, values, i) ==
    IF i > Len(headers) THEN row
    ELSE rowOf(ObjSet(row, headers[i], values[i]), headers, values, i + 1)

\* a loop that also keeps the lines with more fields than headers
RECURSIVE parseDataLinesKeepLonger(_, _, _, _)
parseDataLinesKeepLonger(data, lines, headers, i) ==
    IF i > Len(lines) THEN data
    ELSE LET values == parseCSVLine(lines[i])
         IN  parseDataLinesKeepLonger(IF Len(values) >= Len(headers)
                                      THEN Append(data, rowOf(EmptyObj, headers, values, 1))
                                      ELSE data,
                                      lines, headers, i + 1)

\* the for loop over lines[1..]: a line whose field count differs is skipped
RECURSIVE parseDataLines(_, _, _, _)
parseDataLines(data, lines, headers, i) ==
    IF i > Len(lines) THEN data
    ELSE LET values == parseCSVLine(lines[i])
         IN  parseDataLines(IF Len(values) = Len(headers)
                            THEN Append(data, rowOf(EmptyObj, headers, values, 1))
                            ELSE data,
                            lines, headers, i + 1)

\* parseCSV(text).  split never returns an empty array, so the
\* 'Empty CSV file' throw is unreachable.
parseCSV(text) ==
    LET lines == splitLines(trim(text))
        headers == parseCSVLine(lines[1])
        data == parseDataLines(<<>>, lines, headers, 2)
    IN  [headers |-> headers, data |-> data, totalRows |-> Len(data)]

\* DataPreview exportMutation, case 'csv' (the same expression in mutationFn and in
\* onSuccess): [Object.keys(data[0]).join(','),
\*              ...data.map(row => Object.values(row).join(','))].join('\n')
csvOfRows(data) ==
    joinWith(<<joinWith(ObjKeys(data[1]), ",")>>
                 \o [i \in DOMAIN data |-> joinWith(ObjValues(data[i]), ",")],
             "\n")

\* value.replace(/"/g, '""')
RECURSIVE doubleQuotes(_)
doubleQuotes(s) ==
    IF s = <<>> THEN <<>>
    ELSE (IF Head(s) = "\"" THEN <<"\"", "\"">> ELSE <<Head(s)>>) \o doubleQuotes(Tail(s))

\* JsonDataViewer.downloadCsv, one cell: quoted when it holds a comma or a quote;
\* a missing key (value ?? '') is written empty
escapeCell(row, h) ==
    LET value == cellOf(row, h)
    IN  IF includes(value, <<",">>) \/ includes(value, <<"\"">>)
        THEN <<"\"">> \o doubleQuotes(value) \o <<"\"">>
        ELSE value

\* JsonDataViewer.downloadCsv: csvContent
downloadCsv(headers, data) ==
    joinWith(<<joinWith(headers, ",")>>
                 \o [i \in DOMAIN data |->
                        joinWith([j \in DOMAIN headers |-> escapeCell(data[i], headers[j])], ",")],
             "\n")

-----------------------------------------------------------------------------
(* demoApi.uploadFile                                                      *)

X_csv == <<".", "c", "s", "v">>
X_xlsx == <<".", "x", "l", "s", "x">>
X_xls == <<".", "x", "l", "s">>

\* String.prototype.endsWith
endsWith(s, suffix) ==
    Len(suffix) <= Len(s) /\ SubSeq(s, Len(s) - Len(suffix) + 1, Len(s)) = suffix

\* the job uploadFile returns: COMPLETED with the parsed counts, or FAILED with the
\* message of the error caught.  readOk is FileReader's outcome (onload / onerror).
uploadJob(file, readOk) ==
    IF endsWith(file.name, X_csv)
    THEN IF readOk
         THEN LET parsedData == parseCSV(file.text)
              IN  [status |-> "COMPLETED", file_name |-> file.name,
                   row_count |-> parsedData.totalRows,
                   column_count |-> Len(parsedData.headers), progress |-> 100]
         ELSE [status |-> "FAILED", file_name |-> file.name,
               message |-> "Failed to read file", progress |-> 0]
    ELSE IF endsWith(file.name, X_xlsx) \/ endsWith(file.name, X_xls)
    THEN [status |-> "FAILED", file_name |-> file.name,
          message |-> "Excel files are not supported in demo mode. Please use CSV.",
          progress |-> 0]
    ELSE [status |-> "FAILED", file_name |-> file.name,
          message |-> "Unsupported file format", progress |-> 0]

\* demoApi.uploadFile(file): the whole call; only a parsed file replaces the session
uploadFile(file, readOk) ==
    LET job == uploadJob(file, readOk)
    IN  /\ currentFileData' =
               IF job.status = "COMPLETED"
               THEN LET parsedData == parseCSV(file.text)
                    IN  FileData(parsedData.headers, parsedData.data, EmptyObj, <<>>)
               ELSE currentFileData
        /\ call' = [op |-> "uploadFile", file |-> file, result |-> job]

-----------------------------------------------------------------------------
(* SpecSuggest: suggestMappings applied to bounded header lists and        *)
(* schemas, with and without an uploaded file in the session               *)

MaxHeaders == 2
MaxSchema == 3

F_mobile == <<"m", "o", "b", "i", "l", "e">>

H_Email == <<"E", "m", "a", "i", "l">>
H_E_mail == <<"E", "-", "m", "a", "i", "l">>
H_EmailAddress == <<"E", "m", "a", "i", "l", " ", "A", "d", "d", "r", "e", "s", "s">>
H_Mobile == <<"M", "o", "b", "i", "l", "e">>
H_FirstLast == <<"F", "i", "r", "s", "t", " ", "L", "a", "s", "t">>
H_Mailbox == <<"M", "a", "i", "l", "b", "o", "x">>
H_Name == <<"N", "a", "m", "e">>
H_Dept == <<"D", "e", "p", "t">>

HeaderPool ==
    {H_Email, H_E_mail, H_EmailAddress, H_Mobile, H_FirstLast, H_Mailbox, H_Name, H_Dept}

FieldPool == {F_email, F_phone, F_first_name, F_last_name, F_mobile}

SeqsUpTo(S, n) == UNION {[1..k -> S] : k \in 0..n}

IsInjective(s) == \A i, j \in DOMAIN s : s[i] = s[j] => i = j

\* a schema is an object: its keys are distinct
SchemaPool == {s \in SeqsUpTo(FieldPool, MaxSchema) : IsInjective(s)}

HeaderLists == SeqsUpTo(HeaderPool, MaxHeaders)

V_john == <<"j", "o", "h", "n">>

\* a session holding an uploaded one-column file
SampleFileData ==
    FileData(<<H_Name>>, <<<<[k |-> H_Name, v |-> V_john]>>>>, EmptyObj, <<>>)

InitSuggest ==
    /\ currentFileData \in {NoFileData, SampleFileData}
    /\ mappings = EmptyObj
    /\ selectedSource = <<>>
    /\ draggedItem = <<>>
    /\ suggestPending = FALSE
    /\ component = "none"
    /\ appIdle
    /\ \E h \in HeaderLists, s \in SchemaPool :
           call = [op |-> "suggestInput", headers |-> h, targetSchema |-> s]

SuggestCall ==
    /\ call.op = "suggestInput"
    /\ suggestMappings(call.headers, call.targetSchema)
    /\ UNCHANGED uiVars

NextSuggest == SuggestCall

SpecSuggest == InitSuggest /\ [][NextSuggest]_vars

\* the score the if / else-if chain gives one (header, field) pair on its own
pairScore(header, field) == scoreField(NoBest, normalizedHeader(header), field).bestScore

Suggested == call.op = "suggestMappings"

MaxOf(S) == CHOOSE x \in S : \A y \in S : y <= x

\* C1: no two entries of the mapping set suggestMappings returns have the same
\* target field (a later header matching a claimed target is left unmapped).
C1_UniqueTargets ==
    Suggested =>
        \A i, j \in DOMAIN call.result.mappings :
            call.result.mappings[i].v.target_field = call.result.mappings[j].v.target_field
                => i = j

\* C2: a pair whose normalized header differs from the normalized field but
\* contains one of the field's keywords is scored 0.9 with the keyword reasoning
\* (seen with a schema of that one field, where the pair's score is the result).
C2_KeywordScores09 ==
    (Suggested /\ Len(call.targetSchema) = 1) =>
        \A i \in DOMAIN call.headers :
            LET h == call.headers[i]
                f == call.targetSchema[1]
            IN  (normalizedHeader(h) # normalizedField(f) /\ specialCase(normalizedHeader(h), f))
                    => /\ ObjHas(call.result.mappings, h)
                       /\ ObjGet(call.result.mappings, h).target_field = f
                       /\ ObjGet(call.result.mappings, h).confidence = ScoreKeyword
                       /\ ObjGet(call.result.mappings, h).reasoning
                              = "High confidence match based on field name"

\* C3: the field chosen for a header is one of highest score for that header
\* among all fields of the schema, and the confidence is that score.
C3_BestScoreWins ==
    Suggested =>
        \A i \in DOMAIN call.result.mappings :
            LET e == call.result.mappings[i]
                best == MaxOf({pairScore(e.k, call.targetSchema[j]) :
                                  j \in DOMAIN call.targetSchema})
            IN  /\ pairScore(e.k, e.v.target_field) = best
                /\ e.v.confidence = best

\* C4: among the fields that match a header with the same score, the one declared
\* earliest in the schema is chosen.
C4_TieEarliestDeclared ==
    Suggested =>
        \A i \in DOMAIN call.result.mappings :
            LET e == call.result.mappings[i]
                c == CHOOSE j \in DOMAIN call.targetSchema :
                         call.targetSchema[j] = e.v.target_field
            IN  \A j \in 1..(c - 1) :
                    pairScore(e.k, call.targetSchema[j]) # pairScore(e.k, e.v.target_field)

-----------------------------------------------------------------------------
(* SpecClean: cleanData applied to one cell, then applied again to its own *)
(* output with every target field mapped to itself                         *)

MaxFrags == 3

G_a == <<"a">>
G_John == <<"J", "o", "h", "n">>
G_doe == <<" ", "d", "o", "e">>
G_phone == <<"5", "5", "5", ".", "4", "5", "6", ".", "7", "8", "9", "0">>
G_1 == <<"1">>
G_space == <<" ">>

FragPool == {G_a, T_gmial, T_gmai, G_John, G_doe, G_phone, G_1, G_space}

RECURSIVE concat(_)
concat(parts) == IF parts = <<>> THEN <<>> ELSE Head(parts) \o concat(Tail(parts))

\* the cell values: every concatenation of at most MaxFrags fragments
ValuePool == {concat(parts) : parts \in SeqsUpTo(FragPool, MaxFrags)}

CleanFieldPool ==
    {F_email, F_phone, F_first_name, F_last_name, F_city, F_company, F_department}

H_col == <<"c", "o", "l">>

mappingTo(source, target, conf, why) ==
    [k |-> source,
     v |-> [source_column |-> source, target_field |-> target,
            confidence |-> conf, reasoning |-> why]]

InitClean ==
    /\ currentFileData \in {NoFileData, SampleFileData}
    /\ mappings = EmptyObj
    /\ selectedSource = <<>>
    /\ draggedItem = <<>>
    /\ suggestPending = FALSE
    /\ component = "none"
    /\ appIdle
    /\ \E v \in ValuePool, f \in CleanFieldPool :
           call = [op |-> "cleanInput",
                   data |-> <<<<[k |-> H_col, v |-> v]>>>>,
                   mappings |-> <<mappingTo(H_col, f, ScoreExact, "Exact match found")>>]

CleanCall ==
    /\ call.op = "cleanInput"
    /\ cleanData(call.data, call.mappings)
    /\ UNCHANGED uiVars

\* the mappings of a second pass: each key of the cleaned rows mapped to itself
identityMappings(rows) ==
    IF rows = <<>> THEN EmptyObj
    ELSE [i \in DOMAIN rows[1] |->
             mappingTo(rows[1][i].k, rows[1][i].k, ScoreExact, "Exact match found")]

CleanAgain ==
    /\ call.op = "cleanData"
    /\ LET first == call.result
           r == cleanResult(currentFileData, first.data, identityMappings(first.data))
       IN  /\ currentFileData' = storeCleaned(currentFileData, r.data)
           /\ call' = [op |-> "cleanData2", first |-> first, result |-> r]
    /\ UNCHANGED uiVars

NextClean == CleanCall \/ CleanAgain

SpecClean == InitClean /\ [][NextClean]_vars

\* C6: cleaning an already-cleaned email, phone or name value returns it
\* unchanged: clean(clean(row)) = clean(row).
C6_CleanIdempotent ==
    call.op = "cleanData2" => call.result.data = call.first.data

-----------------------------------------------------------------------------
(* SpecCsv: a row set written by a CSV export path and read back by        *)
(* parseCSV                                                                *)

MaxCsvLen == 2

CsvChars == {"a", ",", "\"", " "}

\* cell values without a newline
CsvValuePool == SeqsUpTo(CsvChars, MaxCsvLen)

\* one column with one or two rows, or two columns with one row
CsvDataPool ==
    {<<<<[k |-> H_col, v |-> v]>>>> : v \in CsvValuePool}
    \cup {<<<<[k |-> H_col, v |-> v]>>, <<[k |-> H_col, v |-> w]>>>> :
              v \in CsvValuePool, w \in CsvValuePool}
    \cup {<<<<[k |-> H_col, v |-> v], [k |-> H_Name, v |-> w]>>>> :
              v \in CsvValuePool, w \in CsvValuePool}

InitCsv ==
    /\ currentFileData = NoFileData
    /\ mappings = EmptyObj
    /\ selectedSource = <<>>
    /\ draggedItem = <<>>
    /\ suggestPending = FALSE
    /\ component = "none"
    /\ appIdle
    /\ \E d \in CsvDataPool : call = [op |-> "csvInput", data |-> d]

\* DataPreview: Export as CSV
ExportPreviewCsv ==
    /\ call.op = "csvInput"
    /\ call' = [op |-> "exportCsv", path |-> "DataPreview", headers |-> ObjKeys(call.data[1]),
                data |-> call.data, text |-> csvOfRows(call.data)]
    /\ UNCHANGED <<currentFileData, uiVars>>

\* JsonDataViewer: Download CSV
ExportViewerCsv ==
    /\ call.op = "csvInput"
    /\ call' = [op |-> "exportCsv", path |-> "JsonDataViewer", headers |-> ObjKeys(call.data[1]),
                data |-> call.data, text |-> downloadCsv(ObjKeys(call.data[1]), call.data)]
    /\ UNCHANGED <<currentFileData, uiVars>>

\* the exported text read back
ParseBack ==
    /\ call.op = "exportCsv"
    /\ call' = [op |-> "parseCSV", path |-> call.path, headers |-> call.headers,
                data |-> call.data, text |-> call.text, result |-> parseCSV(call.text)]
    /\ UNCHANGED <<currentFileData, uiVars>>

NextCsv == ExportPreviewCsv \/ ExportViewerCsv \/ ParseBack

SpecCsv == InitCsv /\ [][NextCsv]_vars

\* C7: decoding the exported CSV text gives back the same headers and exactly
\* the same rows.
C7_CsvRoundTrip ==
    call.op = "parseCSV" =>
        /\ call.result.headers = call.headers
        /\ call.result.data = call.data

\* standard CSV quoting of one value, as the claim words it
quotedIfNeeded(value) ==
    IF includes(value, <<",">>) \/ includes(value, <<"\"">>)
    THEN <<"\"">> \o doubleQuotes(value) \o <<"\"">>
    ELSE value

\* the number of commas of a line that are outside double quotes
RECURSIVE unquotedCommas(_, _)
unquotedCommas(line, inQuotes) ==
    IF line = <<>> THEN 0
    ELSE IF Head(line) = "\"" THEN unquotedCommas(Tail(line), ~inQuotes)
    ELSE Bit(Head(line) = "," /\ ~inQuotes) + unquotedCommas(Tail(line), inQuotes)

\* C8: in every CSV export path a value holding a comma or a double quote is
\* written quoted with its quotes doubled, so every line has exactly
\* (number of headers - 1) unquoted commas.
C8_ExportQuotes ==
    call.op = "exportCsv" =>
        /\ call.text =
               joinWith(<<joinWith(call.headers, ",")>>
                            \o [i \in DOMAIN call.data |->
                                   joinWith([j \in DOMAIN call.headers |->
                                                quotedIfNeeded(cellOf(call.data[i], call.headers[j]))],
                                            ",")],
                        "\n")
        /\ \A line \in Range(splitOn(call.text, "\n")) :
               unquotedCommas(line, FALSE) = Len(call.headers) - 1

-----------------------------------------------------------------------------
(* Spec: the demo engine as a session: files are uploaded and the engine   *)
(* calls are made, in any order, with arguments from small pools           *)

N_a_csv == <<"a", ".", "c", "s", "v">>
N_b_csv == <<"b", ".", "c", "s", "v">>
N_c_xlsx == <<"c", ".", "x", "l", "s", "x">>
N_d_txt == <<"d", ".", "t", "x", "t">>

H_Phone == <<"P", "h", "o", "n", "e">>
V_bad == <<"b", "a", "d">>
V_123 == <<"1", "2", "3">>
V_ok == <<"a", "@", "b", ".", "c">>

\* "Name,Email\njohn,bad"
TXT_a ==
    <<"N", "a", "m", "e", ",", "E", "m", "a", "i", "l", "\n",
      "j", "o", "h", "n", ",", "b", "a", "d">>

\* "Phone\n123"
TXT_b == <<"P", "h", "o", "n", "e", "\n", "1", "2", "3">>

FilePool ==
    {[name |-> N_a_csv, text |-> TXT_a], [name |-> N_b_csv, text |-> TXT_b],
     [name |-> N_c_xlsx, text |-> <<>>], [name |-> N_d_txt, text |-> TXT_b]}

\* the `data` argument of validateData and cleanData
ApiDataPool ==
    {<<>>, <<<<[k |-> H_Email, v |-> V_ok]>>>>, <<<<[k |-> H_Email, v |-> V_bad]>>>>}

\* the `mappings` argument of cleanData and saveMappings
ApiMappingsPool ==
    {EmptyObj,
     <<mappingTo(H_Email, F_email, ScoreExact, "Exact match found")>>,
     <<mappingTo(H_Name, F_first_name, ScorePartial, "Partial match with good confidence")>>}

\* the `headers` argument of suggestMappings
ApiHeadersPool == {<<>>, <<H_Name, H_Email>>, <<H_Phone>>}

Init ==
    /\ currentFileData = NoFileData
    /\ mappings = EmptyObj
    /\ selectedSource = <<>>
    /\ draggedItem = <<>>
    /\ suggestPending = FALSE
    /\ component = "none"
    /\ appIdle
    /\ call = NoCall

UploadFile ==
    /\ \E file \in FilePool, readOk \in BOOLEAN : uploadFile(file, readOk)
    /\ UNCHANGED uiVars

SuggestMappings ==
    /\ \E h \in ApiHeadersPool : suggestMappings(h, targetSchema)
    /\ UNCHANGED uiVars

ValidateData ==
    /\ \E d \in ApiDataPool : validateData(d)
    /\ UNCHANGED uiVars

CleanData ==
    /\ \E d \in ApiDataPool, m \in ApiMappingsPool : cleanData(d, m)
    /\ UNCHANGED uiVars

SaveMappings ==
    /\ \E m \in ApiMappingsPool : saveMappings(m)
    /\ UNCHANGED uiVars

ResetData ==
    /\ resetData
    /\ UNCHANGED uiVars

Next ==
    \/ UploadFile
    \/ SuggestMappings
    \/ ValidateData
    \/ CleanData
    \/ SaveMappings
    \/ ResetData

Spec == Init /\ [][Next]_vars

\* C9: each engine call is a pure function of its arguments: its result is the one
\* the same call gives in a fresh session, whatever earlier calls left behind,
\* also when the rows or mappings argument is empty.
C9_PureOfArguments ==
    /\ call.op = "suggestMappings" =>
           call.result.mappings = suggestedMappings(call.headers, call.targetSchema)
    /\ call.op = "validateData" => call.result = validateResult(NoFileData, call.data)
    /\ call.op = "cleanData" => call.result = cleanResult(NoFileData, call.data, call.mappings)

\* C10: a suggestMappings call changes no state: the session's stored mapping set
\* is the same after the call as before it.
C10_SuggestNoSideEffect ==
    [][call'.op = "suggestMappings" => currentFileData' = currentFileData]_vars

-----------------------------------------------------------------------------
(* The mapping UI: MappingInterface over useParserStore.  Two variants of    *)
(* the component exist: the click-select one (MappingInterface.tsx) and the  *)
(* drag-and-drop one (FileUpload.tsx, second part).                          *)

ClickSelect == "click-select"
DragAndDrop == "drag-and-drop"

P_FirstName == <<"F", "i", "r", "s", "t", " ", "N", "a", "m", "e">>
P_LastName == <<"L", "a", "s", "t", " ", "N", "a", "m", "e">>
P_PhoneNumber == <<"P", "h", "o", "n", "e", " ", "N", "u", "m", "b", "e", "r">>
P_StreetAddress == <<"S", "t", "r", "e", "e", "t", " ", "A", "d", "d", "r", "e", "s", "s">>
P_City == <<"C", "i", "t", "y">>
P_State == <<"S", "t", "a", "t", "e">>
P_ZIP == <<"Z", "I", "P">>
P_CompanyName == <<"C", "o", "m", "p", "a", "n", "y", " ", "N", "a", "m", "e">>

\* the mock preview of the click-select variant
mockHeaders ==
    <<P_FirstName, P_LastName, H_EmailAddress, P_PhoneNumber, P_StreetAddress,
      P_City, P_State, P_ZIP, P_CompanyName, H_Dept>>

\* the `headers` state: set from the preview query
uiHeaders ==
    IF component = ClickSelect THEN mockHeaders
    ELSE IF currentFileData.loaded THEN currentFileData.headers
    ELSE <<>>

\* updateMapping: { ...state.mappings, [column]: mapping }
updateMapping(m, column, mapping) == ObjSet(m, column, mapping)

\* mappings[source]?.target_field
getMappedTarget(source) ==
    IF ObjHas(mappings, source) THEN ObjGet(mappings, source).target_field ELSE <<>>

\* Object.entries(mappings).find(([_, mapping]) => mapping.target_field === target)?.[0]
getMappedSource(target) ==
    IF \E i \in DOMAIN mappings : mappings[i].v.target_field = target
    THEN mappings[Min({i \in DOMAIN mappings : mappings[i].v.target_field = target})].k
    ELSE <<>>

\* const isMapped = !!getMappedTarget(header)
isMapped(header) == getMappedTarget(header) # <<>>

\* const canAcceptMapping = selectedSource && !mappedSource, and in the
\* drag-and-drop variant (selectedSource || draggedItem) && !mappedSource
canAcceptMapping(field) ==
    /\ \/ selectedSource # <<>>
       \/ component = DragAndDrop /\ draggedItem # <<>>
    /\ getMappedSource(field) = <<>>

\* onClick={() => !isMapped && handleSourceClick(header)}
handleSourceClick(source) ==
    /\ ~isMapped(source)
    /\ selectedSource' = source
    /\ call' = [op |-> "handleSourceClick", source |-> source]
    /\ UNCHANGED <<currentFileData, mappings, draggedItem, suggestPending, component, appVars>>

\* onClick={() => canAcceptMapping && handleTargetClick(field)}
handleTargetClick(target) ==
    /\ canAcceptMapping(target)
    /\ IF selectedSource # <<>>
       THEN /\ mappings' = updateMapping(mappings, selectedSource,
                               [source_column |-> selectedSource, target_field |-> target,
                                confidence |-> ScoreExact, reasoning |-> "Manual mapping"])
            /\ selectedSource' = <<>>
       ELSE UNCHANGED <<mappings, selectedSource>>
    /\ call' = [op |-> "handleTargetClick", source |-> selectedSource, target |-> target]
    /\ UNCHANGED <<currentFileData, draggedItem, suggestPending, component, appVars>>

\* draggable={!isMapped} onDragStart={(e) => handleDragStart(e, header)}
handleDragStart(column) ==
    /\ component = DragAndDrop
    /\ ~isMapped(column)
    /\ draggedItem' = column
    /\ call' = [op |-> "handleDragStart", source |-> column]
    /\ UNCHANGED <<currentFileData, mappings, selectedSource, suggestPending, component, appVars>>

\* onDrop={(e) => handleDrop(e, field)}: every target card takes the drop
handleDrop(target) ==
    /\ component = DragAndDrop
    /\ IF draggedItem # <<>>
       THEN mappings' = updateMapping(mappings, draggedItem,
                            [source_column |-> draggedItem, target_field |-> target,
                             confidence |-> ScoreExact,
                             reasoning |-> "Manual mapping via drag-and-drop"])
       ELSE UNCHANGED mappings
    /\ draggedItem' = <<>>
    /\ call' = [op |-> "handleDrop", source |-> draggedItem, target |-> target]
    /\ UNCHANGED <<currentFileData, selectedSource, suggestPending, component, appVars>>

\* the remove button of a mapped source card: removeMapping(header)
removeMapping(source) ==
    /\ component = DragAndDrop
    /\ isMapped(source)
    /\ mappings' = ObjDelete(mappings, source)
    /\ call' = [op |-> "removeMapping", source |-> source]
    /\ UNCHANGED <<currentFileData, selectedSource, draggedItem, suggestPending, component, appVars>>

\* the Clear All button: onClick={() => setMappings({})}
clearAll ==
    /\ component = ClickSelect
    /\ Len(mappings) # 0
    /\ mappings' = EmptyObj
    /\ call' = [op |-> "clearAll"]
    /\ UNCHANGED <<currentFileData, selectedSource, draggedItem, suggestPending, component, appVars>>

\* what the engine suggests for the mock preview
mockSuggestions == suggestedMappings(mockHeaders, targetSchema)

\* parserApi.suggestMappings(headers, sampleData, targetSchema, 'general'): data.mappings
uiSuggestions ==
    IF component = ClickSelect THEN mockSuggestions
    ELSE suggestedMappings(uiHeaders, targetSchema)

\* the AI Suggest button: suggestMutation.mutate(), disabled while pending
suggestMutate ==
    /\ ~suggestPending
    /\ suggestPending' = TRUE
    /\ call' = [op |-> "suggestMutate"]
    /\ UNCHANGED <<currentFileData, mappings, selectedSource, draggedItem, component, appVars>>

\* the engine answers and onSuccess runs: setMappings(data.mappings)
suggestSuccess ==
    /\ suggestPending
    /\ \E m \in {uiSuggestions} :
           /\ currentFileData' = storeMappings(currentFileData, m)
           /\ call' = [op |-> "suggestMappings", headers |-> uiHeaders,
                       targetSchema |-> targetSchema,
                       result |-> [mappings |-> m, status |-> "success"]]
           /\ mappings' = m
    /\ suggestPending' = FALSE
    /\ UNCHANGED <<selectedSource, draggedItem, component, appVars>>

\* a failure handler that falls back to the heuristic suggestions
suggestErrorFallback ==
    /\ suggestPending
    /\ suggestPending' = FALSE
    /\ mappings' = uiSuggestions
    /\ call' = [op |-> "suggestError", toast |-> "Failed to generate mapping suggestions"]
    /\ UNCHANGED <<currentFileData, selectedSource, draggedItem, component, appVars>>

\* the request is rejected (api.post throws) and onError runs: a toast, nothing else
suggestError ==
    /\ suggestPending
    /\ suggestPending' = FALSE
    /\ call' = [op |-> "suggestError", toast |-> "Failed to generate mapping suggestions"]
    /\ UNCHANGED <<currentFileData, mappings, selectedSource, draggedItem, component, appVars>>

\* the Save button: saveMutation.mutate() with the store's mappings
saveMutate ==
    /\ Len(mappings) # 0
    /\ saveMappings(mappings)
    /\ UNCHANGED uiVars

-----------------------------------------------------------------------------
(* SpecUI: a file has been uploaded and the mapping step is open; the user  *)
(* clicks, drags, removes, clears, asks for suggestions and saves           *)

MaxUiSources == 2
MaxUiTargets == 2

\* "Mobile,Dept\n555,x"
TXT_ui ==
    <<"M", "o", "b", "i", "l", "e", ",", "D", "e", "p", "t", "\n",
      "5", "5", "5", ",", "x">>

UiTextPool == {TXT_ui}

Prefix(s, n) == SubSeq(s, 1, IF Len(s) < n THEN Len(s) ELSE n)

\* the source cards and target cards the user acts on
UiSources == Range(Prefix(uiHeaders, MaxUiSources))
UiTargets == Range(Prefix(targetSchema, MaxUiTargets))

InitUI ==
    /\ \E text \in UiTextPool :
           currentFileData = FileData(parseCSV(text).headers, parseCSV(text).data,
                                      EmptyObj, <<>>)
    /\ component \in {ClickSelect, DragAndDrop}
    /\ appIdle
    /\ mappings = EmptyObj
    /\ selectedSource = <<>>
    /\ draggedItem = <<>>
    /\ suggestPending = FALSE
    /\ call = NoCall

SourceClick == \E source \in UiSources : handleSourceClick(source)

TargetClick == \E target \in UiTargets : handleTargetClick(target)

DragStart == \E column \in UiSources : handleDragStart(column)

Drop == \E target \in UiTargets : handleDrop(target)

RemoveMapping == \E source \in UiSources : removeMapping(source)

ClearAll == clearAll

SuggestMutate == suggestMutate

SuggestSuccess == suggestSuccess

SuggestError == suggestError

SaveMutate == saveMutate

NextUI ==
    \/ SourceClick
    \/ TargetClick
    \/ DragStart
    \/ Drop
    \/ RemoveMapping
    \/ ClearAll
    \/ SuggestMutate
    \/ SuggestSuccess
    \/ SuggestError
    \/ SaveMutate

SpecUI == InitUI /\ [][NextUI]_vars

\* the entry a manual mapping of source to target is to leave
manualEntry(source, target) ==
    [source_column |-> source, target_field |-> target,
     confidence |-> ScoreExact, reasoning |-> "Manual mapping"]

\* an entry made by hand, on either manual path
IsManual(v) ==
    v.confidence = ScoreExact
        /\ v.reasoning \in {"Manual mapping", "Manual mapping via drag-and-drop"}

\* C5: a manual mapping of S to T, by click or by drop, leaves the entry
\* {target T, confidence 1.0, reasoning "Manual mapping"} for S, and no step other
\* than a manual replace, remove or clear changes or drops a manual entry.
C5_ManualMappingWins ==
    [][/\ (call'.op \in {"handleTargetClick", "handleDrop"} /\ call'.source # <<>>) =>
              /\ ObjHas(mappings', call'.source)
              /\ ObjGet(mappings', call'.source) = manualEntry(call'.source, call'.target)
       /\ (call'.op \notin {"handleTargetClick", "handleDrop", "removeMapping", "clearAll"}) =>
              \A i \in DOMAIN mappings :
                  IsManual(mappings[i].v) =>
                      /\ ObjHas(mappings', mappings[i].k)
                      /\ ObjGet(mappings', mappings[i].k) = mappings[i].v]_vars

\* DataPreview's cleaned-data query calls cleanData(job_id, [], mappings) with the
\* store's working mapping set: the mappings that call applies
appliedMappings == mappingsOrSession(currentFileData, mappings)

\* C11: once the mapping set is saved, an edit of the working set (replace, remove,
\* clear) made without a further save does not change which mappings cleanData
\* applies: they stay the saved ones.
C11_SavedSnapshotUsed ==
    [][(/\ call.op = "saveMappings"
        /\ call'.op \in {"handleTargetClick", "handleDrop", "removeMapping", "clearAll"}) =>
           appliedMappings' = call.mappings]_vars

-----------------------------------------------------------------------------
(* Export: DataPreview's exportMutation and demoApi.exportData              *)

\* Array.prototype.join(sep) with a separator of any length
RECURSIVE joinBy(_, _)
joinBy(parts, sep) ==
    IF parts = <<>> THEN <<>>
    ELSE IF Len(parts) = 1 THEN parts[1]
    ELSE parts[1] \o sep \o joinBy(Tail(parts), sep)

\* JSON.stringify of a string: quoted, with " and \ escaped
RECURSIVE jsonEscape(_)
jsonEscape(s) ==
    IF s = <<>> THEN <<>>
    ELSE (IF Head(s) \in {"\"", "\\"} THEN <<"\\", Head(s)>> ELSE <<Head(s)>>)
             \o jsonEscape(Tail(s))

jsonString(s) == <<"\"">> \o jsonEscape(s) \o <<"\"">>

\* JSON.stringify(row, null, 2) at nesting depth 1 of an array
jsonObject(row) ==
    IF row = <<>> THEN <<"{", "}">>
    ELSE <<"{", "\n">>
             \o joinBy([i \in DOMAIN row |->
                           <<" ", " ", " ", " ">> \o jsonString(row[i].k) \o <<":", " ">>
                               \o jsonString(row[i].v)],
                       <<",", "\n">>)
             \o <<"\n", " ", " ", "}">>

\* JSON.stringify(data, null, 2)
jsonStringify(data) ==
    IF data = <<>> THEN <<"[", "]">>
    ELSE <<"[", "\n">>
             \o joinBy([i \in DOMAIN data |-> <<" ", " ">> \o jsonObject(data[i])],
                       <<",", "\n">>)
             \o <<"\n", "]">>

ExcelPlaceholder ==
    <<"E", "x", "c", "e", "l", " ", "e", "x", "p", "o", "r", "t", " ", "w", "o", "u", "l", "d",
      " ", "g", "o", " ", "h", "e", "r", "e">>

\* exportMutation.mutationFn: the switch on format.  Object.keys(data[0]) throws
\* when data is empty, which rejects the mutation.
exportBlob(format, data) ==
    IF format = "json"
    THEN [ok |-> TRUE, filename |-> "export.json",
          blob |-> [type |-> "application/json", content |-> jsonStringify(data)]]
    ELSE IF format = "csv"
    THEN IF data = <<>>
         THEN [ok |-> FALSE]
         ELSE [ok |-> TRUE, filename |-> "export.csv",
               blob |-> [type |-> "text/csv", content |-> csvOfRows(data)]]
    ELSE [ok |-> TRUE, filename |-> "export.xlsx",
          blob |-> [type |-> "text/plain", content |-> ExcelPlaceholder]]

\* const data = cleanedData.length > 0 ? cleanedData : (originalData || [])
exportRows(cleaned, original) == IF Len(cleaned) > 0 THEN cleaned ELSE original

\* exportMutation.mutate(format): mutationFn, then onSuccess (the file is downloaded
\* and success is toasted) or onError
exportMutation(format, cleaned, original) ==
    \E r \in {exportBlob(format, exportRows(cleaned, original))} :
        call' = [op |-> "exportMutation", format |-> format,
                 cleanedData |-> cleaned, originalData |-> original,
                 result |-> IF r.ok
                            THEN [status |-> "success", downloads |-> <<r>>,
                                  toast |-> "Successfully exported"]
                            ELSE [status |-> "error", downloads |-> <<>>,
                                  toast |-> "Failed to export data"]]

\* demoApi.exportData(jobId, format): what it returns or throws when the session is fd
exportResult(fd, format) ==
    LET dataToExport == IF fd.loaded
                        THEN IF Len(fd.cleanedData) > 0 THEN fd.cleanedData ELSE fd.data
                        ELSE <<>>
    IN  IF Len(dataToExport) = 0
        THEN [status |-> "error", message |-> "No data to export"]
        ELSE [status |-> "success", url |-> <<"/export.", format>>,
              filename |-> <<"cleaned_data_", format>>, data |-> dataToExport]

\* demoApi.exportData(jobId, format): the whole call
exportData(format) ==
    /\ call' = [op |-> "exportData", format |-> format,
                cleanedData |-> IF currentFileData.loaded THEN currentFileData.cleanedData
                                ELSE <<>>,
                originalData |-> IF currentFileData.loaded THEN currentFileData.data ELSE <<>>,
                result |-> exportResult(currentFileData, format)]
    /\ UNCHANGED currentFileData

-----------------------------------------------------------------------------
(* SpecExport: the preview step holds cleaned and original rows and the     *)
(* user exports them, in each format the select offers                      *)

ExportFormats == {"csv", "json", "xlsx"}

ExportCleanedPool == {<<>>} \cup CsvDataPool

ExportOriginalPool == {<<>>, <<<<[k |-> H_col, v |-> V_ok]>>>>}

InitExport ==
    /\ \E cleaned \in ExportCleanedPool, original \in ExportOriginalPool, loaded \in BOOLEAN :
           /\ currentFileData =
                  IF loaded THEN FileData(<<H_col>>, original, EmptyObj, cleaned)
                  ELSE NoFileData
           /\ call = [op |-> "exportInput",
                      cleanedData |-> IF loaded THEN cleaned ELSE <<>>,
                      originalData |-> IF loaded THEN original ELSE <<>>]
    /\ mappings = EmptyObj
    /\ selectedSource = <<>>
    /\ draggedItem = <<>>
    /\ suggestPending = FALSE
    /\ component = "none"
    /\ appIdle

ExportMutate ==
    /\ \E format \in ExportFormats : exportMutation(format, call.cleanedData, call.originalData)
    /\ UNCHANGED <<currentFileData, uiVars>>

ExportData ==
    /\ \E format \in ExportFormats : exportData(format)
    /\ UNCHANGED uiVars

NextExport == ExportMutate \/ ExportData

SpecExport == InitExport /\ [][NextExport]_vars

\* C12: an export with a format other than csv or json signals an error to the
\* caller and produces no output: nothing is downloaded and no success is reported.
C12_UnsupportedFormatFails ==
    (call.op \in {"exportMutation", "exportData"} /\ call.format \notin {"csv", "json"}) =>
        /\ call.result.status = "error"
        /\ call.op = "exportMutation" => call.result.downloads = <<>>

-----------------------------------------------------------------------------
(* Claims about validateData and cleanData as session calls (Spec)          *)

\* C13: every issue a validateData call returns addresses a cell of the rows
\* passed to that call: 0 <= row_index < len(rows) and column is a key of
\* rows[row_index], an empty row list included.
C13_IssuesAddressRows ==
    call.op = "validateData" =>
        \A i \in Range(call.result.errors) \cup Range(call.result.warnings) :
            /\ i.row_index \in 0..(Len(call.data) - 1)
            /\ ObjHas(call.data[i.row_index + 1], i.column)

-----------------------------------------------------------------------------
(* Claims about cleanData applied to one cell (SpecClean)                    *)

\* the one cell of a SpecClean call and the target field it is mapped to
cellValue == call.data[1][1].v
cellTarget == call.mappings[1].v.target_field

\* a domain-typo substitution applies to the trimmed, lowercased value
typoSubstituted(value) == fixEmail(trim(value)) # toLowerCase(trim(value))

\* C14: changes.email counts exactly the rows whose email value had a domain-typo
\* substitution applied; a value that cleaning only lowercases or trims does not
\* increment it.
C14_EmailCounterCountsTypos ==
    (call.op = "cleanData" /\ cellTarget = F_email) =>
        call.result.changes["email"] = Bit(typoSubstituted(cellValue))

\* the cleaned value of the single cell
cleanedCell == ObjGet(call.result.data[1], cellTarget)

\* "+1-d1d2d3-d4d5d6-d7d8d9d10"
plusOneFormat(d) ==
    <<"+", "1", "-", d[1], d[2], d[3], "-", d[4], d[5], d[6], "-", d[7], d[8], d[9], d[10]>>

\* C17: a value mapped to phone whose digits number exactly ten is cleaned to
\* "+1-d1d2d3-d4d5d6-d7d8d9d10" and counted once in changes.phone; with any other
\* number of digits the cleaned value is the trimmed original and nothing is counted.
C17_PhoneCleaning ==
    (call.op = "cleanData" /\ cellTarget = F_phone) =>
        IF Len(digitsOf(cellValue)) = 10
        THEN /\ cleanedCell = plusOneFormat(digitsOf(cellValue))
             /\ call.result.changes["phone"] = 1
        ELSE /\ cleanedCell = trim(cellValue)
             /\ call.result.changes["phone"] = 0

\* "555.456.7890" mapped to phone has been cleaned to "+1-555-456-7890"
C17_Witness ==
    /\ call.op = "cleanData"
    /\ cellTarget = F_phone
    /\ cellValue = G_phone
    /\ cleanedCell = <<"+", "1", "-", "5", "5", "5", "-", "4", "5", "6", "-", "7", "8", "9", "0">>
    /\ call.result.changes["phone"] = 1

-----------------------------------------------------------------------------
(* SpecValidate: validateData applied to one cell, whose column name and    *)
(* value are drawn from bounded pools                                       *)

MaxValFrags == 3

C_MOBILE == <<"M", "O", "B", "I", "L", "E", " ", "N", "o">>
C_PhoneEmail == <<"P", "h", "o", "n", "e", " ", "E", "m", "a", "i", "l">>
C_Zip == <<"Z", "i", "p">>

ColumnPool == {H_Phone, C_MOBILE, H_Email, C_PhoneEmail, H_Name, C_Zip, H_Dept}

Y_at_a == <<"@", "a">>
Y_dot_a == <<".", "a">>
Y_12345 == <<"1", "2", "3", "4", "5">>
Y_mail == <<"a", "@", "a", ".", "a">>

ValFragPool ==
    {<<"a">>, Y_at_a, Y_dot_a, Y_mail, <<"1">>, Y_12345, <<" ">>, <<"\t">>, <<"-">>, <<"(">>, <<"+">>}

\* the cell values: every concatenation of at most MaxValFrags fragments
ValValuePool == {concat(parts) : parts \in SeqsUpTo(ValFragPool, MaxValFrags)}

InitValidate ==
    /\ currentFileData \in {NoFileData, SampleFileData}
    /\ mappings = EmptyObj
    /\ selectedSource = <<>>
    /\ draggedItem = <<>>
    /\ suggestPending = FALSE
    /\ component = "none"
    /\ appIdle
    /\ \E column \in ColumnPool, value \in ValValuePool :
           call = [op |-> "validateInput", data |-> <<<<[k |-> column, v |-> value]>>>>]

ValidateCall ==
    /\ call.op = "validateInput"
    /\ validateData(call.data)
    /\ UNCHANGED uiVars

NextValidate == ValidateCall

SpecValidate == InitValidate /\ [][NextValidate]_vars

\* the one cell of a SpecValidate call
cellColumn == call.data[1][1].k
cellRaw == call.data[1][1].v

\* the number of issues of a list that carry a message
countOf(issues, message) == Cardinality({i \in DOMAIN issues : issues[i].message = message})

isPhoneColumn(column) ==
    includes(toLowerCase(column), W_phone) \/ includes(toLowerCase(column), W_mobile)

\* only digits, white space, hyphens, plus and parentheses
onlyPhoneChars(value) ==
    \A i \in DOMAIN value : IsDigit(value[i]) \/ IsSpace(value[i]) \/ value[i] \in {"-", "+", "(", ")"}

\* C15: a non-blank value of a phone / mobile column gets exactly one of: the error
\* "Invalid phone number format" (a character outside digits, white space, hyphen,
\* plus, parentheses), the warning "Phone number seems incomplete" (allowed
\* characters, fewer than 10 digits), or no phone issue; never both.
C15_PhoneOutcomes ==
    (call.op = "validateData" /\ isPhoneColumn(cellColumn) /\ trim(cellRaw) # <<>>) =>
        LET nErr == countOf(call.result.errors, "Invalid phone number format")
            nWarn == countOf(call.result.warnings, "Phone number seems incomplete")
        IN  /\ countOf(call.result.warnings, "Invalid phone number format") = 0
            /\ countOf(call.result.errors, "Phone number seems incomplete") = 0
            /\ IF ~onlyPhoneChars(cellRaw) THEN nErr = 1 /\ nWarn = 0
               ELSE IF Len(digitsOf(cellRaw)) < 10 THEN nErr = 0 /\ nWarn = 1
               ELSE nErr = 0 /\ nWarn = 0

\* a phone cell with allowed characters and too few digits has been validated
C15_Witness ==
    /\ call.op = "validateData"
    /\ cellColumn = H_Phone
    /\ cellRaw = <<"1", "1", "1">>
    /\ countOf(call.result.warnings, "Phone number seems incomplete") = 1

isEmailColumn(column) == includes(toLowerCase(column), W_email)

\* one or more characters, none of them white space or "@"
plainPart(s) == s # <<>> /\ \A i \in DOMAIN s : ~IsSpace(s[i]) /\ s[i] # "@"

\* local@domain.tld
matchesLocalAtDomainTld(s) ==
    \E a \in DOMAIN s, d \in DOMAIN s :
        /\ a < d
        /\ s[a] = "@" /\ s[d] = "."
        /\ plainPart(SubSeq(s, 1, a - 1))
        /\ plainPart(SubSeq(s, a + 1, d - 1))
        /\ plainPart(SubSeq(s, d + 1, Len(s)))

\* C16: in an email column a non-blank value that does not match local@domain.tld
\* gets exactly one error "Invalid email format"; a non-blank matching value gets no
\* email and no required-field issue; a blank value gets no error and exactly one
\* warning "Required field is empty". The pattern is applied to the value as given.
C16_EmailOutcomes ==
    (call.op = "validateData" /\ isEmailColumn(cellColumn)) =>
        IF trim(cellRaw) = <<>>
        THEN /\ call.result.errors = <<>>
             /\ countOf(call.result.warnings, "Required field is empty") = 1
        ELSE IF matchesLocalAtDomainTld(cellRaw)
        THEN /\ countOf(call.result.errors, "Invalid email format") = 0
             /\ countOf(call.result.warnings, "Required field is empty") = 0
        ELSE countOf(call.result.errors, "Invalid email format") = 1

\* C16 (amended): the same three outcomes, with the pattern applied to the value
\* after its surrounding white space has been removed.
C16_EmailOutcomesTrimmed ==
    (call.op = "validateData" /\ isEmailColumn(cellColumn)) =>
        LET nFormat == countOf(call.result.errors, "Invalid email format")
                           + countOf(call.result.warnings, "Invalid email format")
            nRequired == countOf(call.result.errors, "Required field is empty")
                             + countOf(call.result.warnings, "Required field is empty")
        IN  IF trim(cellRaw) = <<>>
            THEN /\ call.result.errors = <<>>
                 /\ countOf(call.result.warnings, "Required field is empty") = 1
                 /\ nRequired = 1
            ELSE IF matchesLocalAtDomainTld(trim(cellRaw))
            THEN nFormat = 0 /\ nRequired = 0
            ELSE /\ countOf(call.result.errors, "Invalid email format") = 1
                 /\ nFormat = 1

\* an email cell with an "@" but no dot after it has been validated
C16_Witness ==
    /\ call.op = "validateData"
    /\ cellColumn = H_Email
    /\ cellRaw = <<"a", "@", "a">>
    /\ countOf(call.result.errors, "Invalid email format") = 1

-----------------------------------------------------------------------------
(* SpecCleanRows: cleanData applied to row sets of two columns under        *)
(* mapping sets of several entries, with and without a stored session       *)

MaxRows == 2
MaxMappings == 2

V_typo == G_a \o T_gmial

RowEmailPool == {V_ok, V_typo}
RowPhonePool == {G_phone, V_123}

rowOfTwo(e, p) == <<[k |-> H_Email, v |-> e], [k |-> H_Phone, v |-> p]>>

RowPool == {rowOfTwo(e, p) : e \in RowEmailPool, p \in RowPhonePool}

RowsPool == SeqsUpTo(RowPool, MaxRows)

\* H_Name is a column the rows do not have
RowSourcePool == {H_Email, H_Phone, H_Name}
RowTargetPool == {F_email, F_phone, F_first_name, F_department}

\* a mapping set is an object keyed by source column: its keys are distinct
RowMappingsPool ==
    UNION {{[i \in 1..n |-> mappingTo(src[i], tgt[i], ScoreExact, "Exact match found")] :
                src \in {q \in [1..n -> RowSourcePool] : IsInjective(q)},
                tgt \in [1..n -> RowTargetPool]} : n \in 0..MaxMappings}

\* a session holding an uploaded two-column file and its saved mappings
StoredFileData ==
    FileData(<<H_Email, H_Phone>>, <<rowOfTwo(V_typo, V_123)>>,
             <<mappingTo(H_Phone, F_phone, ScoreExact, "Exact match found")>>, <<>>)

InitCleanRows ==
    /\ currentFileData \in {NoFileData, SampleFileData, StoredFileData}
    /\ mappings = EmptyObj
    /\ selectedSource = <<>>
    /\ draggedItem = <<>>
    /\ suggestPending = FALSE
    /\ component = "none"
    /\ appIdle
    /\ \E d \in RowsPool, m \in RowMappingsPool :
           call = [op |-> "cleanInput", data |-> d, mappings |-> m]

CleanRowsCall ==
    /\ call.op = "cleanInput"
    /\ cleanData(call.data, call.mappings)
    /\ UNCHANGED uiVars

NextCleanRows == CleanRowsCall

SpecCleanRows == InitCleanRows /\ [][NextCleanRows]_vars

bothFixMappings ==
    <<mappingTo(H_Email, F_email, ScoreExact, "Exact match found"),
      mappingTo(H_Phone, F_phone, ScoreExact, "Exact match found")>>

\* C18: total_changes is the sum of the five counters of changes, whatever the
\* rows and mappings; a single row with an email fix and a phone fix gives two.
C18_TotalIsSumOfCounters ==
    call.op = "cleanData" =>
        /\ call.result.total_changes =
               call.result.changes["email"] + call.result.changes["phone"]
                   + call.result.changes["names"] + call.result.changes["locations"]
                   + call.result.changes["companies"]
        /\ (call.data = <<rowOfTwo(V_typo, G_phone)>> /\ call.mappings = bothFixMappings) =>
               call.result.total_changes = 2

\* one row whose email typo and whose phone format were both fixed has been cleaned
C18_Witness ==
    /\ call.op = "cleanData"
    /\ call.data = <<rowOfTwo(V_typo, G_phone)>>
    /\ call.mappings = bothFixMappings
    /\ call.result.changes["email"] = 1
    /\ call.result.changes["phone"] = 1
    /\ call.result.total_changes = 2

\* C19: a cleanData call leaves the rows passed to it and the session's stored
\* original rows as they were before the call, key by key and value by value; the
\* cleaned rows go to the result and to the session's cleanedData only.
C19_InputRowsUntouched ==
    [][(call.op = "cleanInput" /\ call'.op = "cleanData") =>
           /\ call'.data = call.data
           /\ call'.mappings = call.mappings
           /\ currentFileData'.loaded = currentFileData.loaded
           /\ currentFileData.loaded =>
                  /\ currentFileData'.data = currentFileData.data
                  /\ currentFileData'.headers = currentFileData.headers
                  /\ currentFileData'.mappings = currentFileData.mappings
                  /\ currentFileData'.cleanedData = call'.result.data]_vars

\* rows that cleaning changes have been cleaned in a session that holds original rows
C19_Witness ==
    /\ call.op = "cleanData"
    /\ call.data = <<rowOfTwo(V_typo, G_phone)>>
    /\ call.mappings = bothFixMappings
    /\ currentFileData.loaded
    /\ currentFileData.data = <<rowOfTwo(V_typo, V_123)>>
    /\ currentFileData.cleanedData = call.result.data
    /\ currentFileData.cleanedData # <<>>

\* the rows and the mappings a call works on
rowsCleaned == dataOrSession(currentFileData, call.data)
activeMappings == mappingsOrSession(currentFileData, call.mappings)

targetsOf(m) == {m[i].v.target_field : i \in DOMAIN m}

\* the entry processed last among those that name a target field
lastEntryFor(m, target) ==
    m[CHOOSE i \in DOMAIN m :
          /\ m[i].v.target_field = target
          /\ \A j \in DOMAIN m : m[j].v.target_field = target => j <= i]

sameTargetMappings ==
    <<mappingTo(H_Email, F_department, ScoreExact, "Exact match found"),
      mappingTo(H_Phone, F_department, ScoreExact, "Exact match found")>>

-----------------------------------------------------------------------------
(* The mapping step when the suggestion request fails                      *)

\* C21: a failed suggestion call ends in the caller's error handler: the request
\* is over and is not sent again, no heuristic suggestion is computed or applied,
\* and the mapping set and the session are what they were before the call.
C21_SuggestFailureLeavesMappings ==
    [][call'.op = "suggestError" =>
           /\ suggestPending /\ ~suggestPending'
           /\ mappings' = mappings
           /\ currentFileData' = currentFileData
           /\ DOMAIN call' = {"op", "toast"}]_vars

\* a suggestion request has failed while the mapping set held a manual mapping
C21_Witness ==
    /\ call.op = "suggestError"
    /\ ~suggestPending
    /\ Len(mappings) = 1
    /\ mappings[1].v.reasoning = "Manual mapping"
    /\ suggestedMappings(uiHeaders, targetSchema) # mappings

-----------------------------------------------------------------------------
(* SpecParse: parseCSV applied to short texts over letters, commas, quotes, *)
(* spaces and line ends                                                    *)

MaxTextLen == 6

TextChars == {"a", "b", ",", "\"", " ", "\n"}

TextPool == SeqsUpTo(TextChars, MaxTextLen)

InitParse ==
    /\ currentFileData = NoFileData
    /\ mappings = EmptyObj
    /\ selectedSource = <<>>
    /\ draggedItem = <<>>
    /\ suggestPending = FALSE
    /\ component = "none"
    /\ appIdle
    /\ \E text \in TextPool : call = [op |-> "parseInput", text |-> text]

ParseText ==
    /\ call.op = "parseInput"
    /\ call' = [op |-> "parseCSV", text |-> call.text, result |-> parseCSV(call.text)]
    /\ UNCHANGED <<currentFileData, uiVars>>

NextParse == ParseText

SpecParse == InitParse /\ [][NextParse]_vars

\* the lines of the text, the first of which is the header line
textLines == splitLines(trim(call.text))

\* the fields of a line
fieldsOf(line) == parseCSVLine(line)

\* the data lines with as many fields as the header line, in file order
matchingLines ==
    SelectSeq(Tail(textLines), LAMBDA l : Len(fieldsOf(l)) = Len(fieldsOf(textLines[1])))

\* the field a row holds under a header: that of the header's last position
fieldUnder(headers, values, h) ==
    values[CHOOSE j \in DOMAIN headers :
               headers[j] = h /\ \A k \in DOMAIN headers : headers[k] = h => k <= j]

\* C22: parseCSV returns, without an error, exactly the data lines whose field
\* count equals the header count, in file order; totalRows is the number of rows
\* returned and every row has the set of headers as its key set.
C22_MismatchedLinesDropped ==
    call.op = "parseCSV" =>
        LET r == call.result
        IN  /\ r.headers = fieldsOf(textLines[1])
            /\ Len(r.data) = Len(matchingLines)
            /\ r.totalRows = Len(r.data)
            /\ \A i \in DOMAIN r.data :
                   /\ IsObj(r.data[i])
                   /\ Range(ObjKeys(r.data[i])) = Range(r.headers)
                   /\ \A h \in Range(r.headers) :
                          ObjGet(r.data[i], h) = fieldUnder(r.headers, fieldsOf(matchingLines[i]), h)

\* ",\na\n,b": the one-field line is dropped, the two-field line is kept
C22_Witness ==
    /\ call.op = "parseCSV"
    /\ call.text = <<",", "\n", "a", "\n", ",", "b">>
    /\ Len(call.result.headers) = 2
    /\ Len(fieldsOf(textLines[2])) = 1
    /\ call.result.totalRows = 1
    /\ call.result.data = <<<<[k |-> <<>>, v |-> <<"b">>]>>>>

-----------------------------------------------------------------------------
(* SpecValidateRows: validateData applied to row sets of zero, one or two   *)
(* columns, with and without a stored session                              *)

CheckEmailPool == {V_ok, V_bad, <<>>}
CheckPhonePool == {V_123, V_bad}

CheckRowPool ==
    {rowOfTwo(e, p) : e \in CheckEmailPool, p \in CheckPhonePool}
        \cup {<<[k |-> H_Email, v |-> e]>> : e \in CheckEmailPool}
        \cup {EmptyObj}

CheckRowsPool == SeqsUpTo(CheckRowPool, MaxRows)

InitValidateRows ==
    /\ currentFileData \in {NoFileData, SampleFileData, StoredFileData}
    /\ mappings = EmptyObj
    /\ selectedSource = <<>>
    /\ draggedItem = <<>>
    /\ suggestPending = FALSE
    /\ component = "none"
    /\ appIdle
    /\ \E d \in CheckRowsPool : call = [op |-> "validateInput", data |-> d]

ValidateRowsCall ==
    /\ call.op = "validateInput"
    /\ validateData(call.data)
    /\ UNCHANGED uiVars

NextValidateRows == ValidateRowsCall

SpecValidateRows == InitValidateRows /\ [][NextValidateRows]_vars

rowsValidated == dataOrSession(currentFileData, call.data)

columnsOf(issues) == {issues[i].column : i \in DOMAIN issues}

\* C23: the summary of a validation result agrees with its issue lists: the two
\* counts are the lengths of the lists, the two column lists hold exactly the
\* distinct columns of the errors and of the warnings, total_rows is the number
\* of rows validated, total_columns the key count of the first row (0 without
\* rows), and valid is true exactly when there is no error.
C23_SummaryConsistent ==
    call.op = "validateData" =>
        LET r == call.result
            sm == call.result.summary
        IN  /\ sm.errors_count = Len(r.errors)
            /\ sm.warnings_count = Len(r.warnings)
            /\ Range(sm.error_columns) = columnsOf(r.errors)
            /\ Range(sm.warning_columns) = columnsOf(r.warnings)
            /\ IsInjective(sm.error_columns)
            /\ IsInjective(sm.warning_columns)
            /\ sm.total_rows = Len(rowsValidated)
            /\ sm.total_columns = IF rowsValidated = <<>> THEN 0 ELSE Len(rowsValidated[1])
            /\ r.valid = (r.errors = <<>>)

\* two rows with the same faulty columns have been validated: two errors in each
\* of two columns, and each column listed once
C23_Witness ==
    /\ call.op = "validateData"
    /\ call.data = <<rowOfTwo(V_bad, V_bad), rowOfTwo(V_bad, V_bad)>>
    /\ call.result.summary.errors_count = 4
    /\ call.result.summary.error_columns = <<H_Email, H_Phone>>
    /\ call.result.summary.total_columns = 2
    /\ ~call.result.valid

-----------------------------------------------------------------------------
(* The suggested mappings one by one (under SpecSuggest)                   *)

\* the fixed reasoning text of each rule, by the confidence the rule gives
ruleText(confidence) ==
    CASE confidence = 10 -> "Exact match found"
      [] confidence = 9 -> "High confidence match based on field name"
      [] confidence = 8 -> "Partial match with good confidence"
      [] OTHER -> "none"

noRuleMatches(header, field) ==
    LET nh == normalizedHeader(header)
        nf == normalizedField(field)
    IN  /\ nh # nf
        /\ ~includes(nh, nf)
        /\ ~includes(nf, nh)
        /\ ~specialCase(nh, field)

\* C25: with no headers or with a schema of no fields the result is the empty
\* mapping set, returned with status success; a header that no rule matches to any
\* field of the schema has no entry in the result.
C25_EmptyAndUnmatched ==
    Suggested =>
        /\ call.result.status = "success"
        /\ (call.headers = <<>> \/ call.targetSchema = <<>>) => call.result.mappings = EmptyObj
        /\ \A h \in Range(call.headers) :
               (\A f \in Range(call.targetSchema) : noRuleMatches(h, f))
                   => ~ObjHas(call.result.mappings, h)

\* a call with a header that no rule matches, beside one that is mapped
C25_Witness ==
    /\ Suggested
    /\ call.headers = <<H_Dept, H_Email>>
    /\ call.targetSchema = <<F_email, F_phone>>
    /\ ObjKeys(call.result.mappings) = <<H_Email>>

-----------------------------------------------------------------------------
(* The workflow of App: the tabs, the upload step, the store's job          *)

\* uploadMutation.mutate(selectedFile): parserApi.uploadFile resolves with a job,
\* COMPLETED or FAILED, and onSuccess runs: setCurrentJob(data); onUploadComplete(),
\* which in App is setActiveTab('mapping')
uploadMutate(file, readOk) ==
    /\ activeTab = "upload"
    /\ uploadFile(file, readOk)
    /\ currentJob' = uploadJob(file, readOk)
    /\ activeTab' = "mapping"
    /\ UNCHANGED <<mappings, selectedSource, draggedItem, suggestPending, component,
                   validationResults, selectedError, fixedErrors, editingCell, fixTimers, showAiFixer>>

\* <TabsTrigger value=... disabled={!currentJob}>: handleTabChange
handleTabChange(value) ==
    /\ value = "upload" \/ currentJob # NoJob
    /\ value # activeTab
    /\ activeTab' = value
    /\ call' = [op |-> "handleTabChange", value |-> value]
    /\ UNCHANGED <<currentFileData, mappings, selectedSource, draggedItem, suggestPending,
                   component, currentJob, validationResults, selectedError, fixedErrors,
                   editingCell, fixTimers, showAiFixer>>

\* the Start New Import button: resetData(); resetJob(); setActiveTab('upload')
startNewImport ==
    /\ currentJob # NoJob
    /\ resetData
    /\ currentJob' = NoJob
    /\ mappings' = EmptyObj
    /\ validationResults' = NoResults
    /\ activeTab' = "upload"
    /\ UNCHANGED <<selectedSource, draggedItem, suggestPending, component,
                   selectedError, fixedErrors, editingCell, fixTimers, showAiFixer>>

\* DataPreview's cleaned-data query, run when the preview tab shows with a job and
\* a mapping set that is not empty: parserApi.cleanData(currentJob.job_id, [], mappings)
previewClean ==
    /\ activeTab = "preview"
    /\ currentJob # NoJob
    /\ Len(mappings) > 0
    /\ cleanData(<<>>, mappings)
    /\ UNCHANGED uiVars

-----------------------------------------------------------------------------
(* SpecFlow: files are uploaded, tabs are changed, suggestions are asked    *)
(* for on the mapping tab, the preview tab cleans, the import is restarted *)

TabPool == {"upload", "mapping", "validation", "preview", "metrics"}

InitFlow ==
    /\ currentFileData = NoFileData
    /\ mappings = EmptyObj
    /\ selectedSource = <<>>
    /\ draggedItem = <<>>
    /\ suggestPending = FALSE
    /\ component \in {ClickSelect, DragAndDrop}
    /\ appIdle
    /\ call = NoCall

UploadMutate == \E file \in FilePool, readOk \in BOOLEAN : uploadMutate(file, readOk)

TabChange == \E value \in TabPool : handleTabChange(value)

StartNewImport == startNewImport

FlowSuggestMutate == activeTab = "mapping" /\ currentJob # NoJob /\ suggestMutate

FlowSuggestSuccess == suggestSuccess

PreviewClean == previewClean

NextFlow ==
    \/ UploadMutate
    \/ TabChange
    \/ StartNewImport
    \/ FlowSuggestMutate
    \/ FlowSuggestSuccess
    \/ PreviewClean

SpecFlow == InitFlow /\ [][NextFlow]_vars

\* C28: right after a file has been uploaded successfully, the mapping set that
\* cleaning would use is empty: no mapping made for an earlier file is left to be
\* applied to the new file's rows, with or without Start New Import in between.
C28_NoStaleMappingsAfterUpload ==
    (call.op = "uploadFile" /\ call.result.status = "COMPLETED") =>
        appliedMappings = EmptyObj

\* C29: an upload that does not produce a COMPLETED job sets no current job,
\* does not move the workflow from the upload tab to the mapping tab, and leaves
\* the session's stored file data as it was.
C29_FailedUploadStaysOnUpload ==
    [][(call'.op = "uploadFile" /\ call'.result.status # "COMPLETED") =>
           /\ currentJob' = currentJob
           /\ activeTab' = activeTab
           /\ currentFileData' = currentFileData]_vars

\* no two source columns of a mapping set are assigned the same target field
distinctTargets(m) ==
    \A i, j \in DOMAIN ObjValues(m) :
        i # j => ObjValues(m)[i].target_field # ObjValues(m)[j].target_field

\* C27: starting from a mapping set whose target fields are all distinct, a manual
\* mapping action (a click on a target card with a source selected, or a drop of a
\* dragged source on a target card) leaves a mapping set whose target fields are
\* all distinct: a target claimed by another source is not claimed again.
C27_ManualMappingKeepsTargetsDistinct ==
    [][(call'.op \in {"handleTargetClick", "handleDrop"} /\ distinctTargets(mappings))
           => distinctTargets(mappings')]_vars


-----------------------------------------------------------------------------
(* ValidationDashboard: the issue list, the fixed keys, the inline edit and *)
(* the delayed callback of AI Fix All                                      *)

\* the callbacks of AI Fix All that may be pending at once
MaxTimers == 2

DecimalDigits == <<"0", "1", "2", "3", "4", "5", "6", "7", "8", "9">>

\* String(n) of a row index
RECURSIVE numberToString(_)
numberToString(n) ==
    IF n < 10 THEN <<DecimalDigits[n + 1]>>
    ELSE numberToString(n \div 10) \o <<DecimalDigits[(n % 10) + 1]>>

\* `${row_index}-${column}`
errorKey(rowIndex, column) == numberToString(rowIndex) \o <<"-">> \o column

\* validationResults.errors.filter(error => !fixedErrors.has(errorKey))
remainingErrors ==
    SelectSeq(validationResults.errors,
              LAMBDA e : errorKey(e.row_index, e.column) \notin fixedErrors)

\* the issue cards shown with no filter and no search term
filteredIssues == remainingErrors \o validationResults.warnings

dashboardFrame ==
    UNCHANGED <<currentFileData, mappings, selectedSource, draggedItem, suggestPending,
                component, currentJob, activeTab>>

\* the effect on mount: validateMutation.mutate() when there is a job and no results
\* yet; onSuccess: setValidationResults(data)
validateMutate ==
    /\ activeTab = "validation"
    /\ currentJob # NoJob
    /\ validationResults = NoResults
    /\ validateData(<<>>)
    /\ validationResults' = validateResult(currentFileData, <<>>)
    /\ UNCHANGED <<mappings, selectedSource, draggedItem, suggestPending, component,
                   currentJob, activeTab, selectedError, fixedErrors, editingCell, fixTimers, showAiFixer>>

\* onClick={() => !isFixed && setSelectedError(error)} on an issue card; the card
\* takes mouse clicks only, which the overlay of showAiFixer intercepts
selectError(error) ==
    /\ ~showAiFixer
    /\ errorKey(error.row_index, error.column) \notin fixedErrors
    /\ selectedError' = error
    /\ call' = [op |-> "setSelectedError", error |-> error]
    /\ dashboardFrame
    /\ UNCHANGED <<validationResults, fixedErrors, editingCell, fixTimers, showAiFixer>>

\* the Apply AI Fix button of the selected issue
handleFixError ==
    /\ selectedError # NoIssue
    /\ fixedErrors' = fixedErrors \cup {errorKey(selectedError.row_index, selectedError.column)}
    /\ call' = [op |-> "handleFixError",
                key |-> errorKey(selectedError.row_index, selectedError.column)]
    /\ dashboardFrame
    /\ UNCHANGED <<validationResults, selectedError, editingCell, fixTimers, showAiFixer>>

\* what the callback of setTimeout closes over: the fixedErrors and the
\* validationResults of the render in which AI Fix All was pressed
fixClosure ==
    [fixedErrors |-> fixedErrors,
     errorKeys |-> {errorKey(validationResults.errors[i].row_index,
                             validationResults.errors[i].column) :
                        i \in DOMAIN validationResults.errors}]

\* the AI Fix All button, disabled={remainingErrors.length === 0}
handleAiFixAll ==
    /\ validationResults # NoResults
    /\ remainingErrors # <<>>
    /\ Cardinality(fixTimers) < MaxTimers
    /\ fixClosure \notin fixTimers
    /\ fixTimers' = fixTimers \cup {fixClosure}
    /\ showAiFixer' = TRUE
    /\ call' = [op |-> "handleAiFixAll"]
    /\ dashboardFrame
    /\ UNCHANGED <<validationResults, selectedError, fixedErrors, editingCell>>

\* the callback after 2500 ms: setFixedErrors(new Set([...fixedErrors, ...errorKeys]))
aiFixTimeout(timer) ==
    /\ timer \in fixTimers
    /\ fixedErrors' = timer.fixedErrors \cup timer.errorKeys
    /\ fixTimers' = fixTimers \ {timer}
    /\ showAiFixer' = FALSE
    /\ call' = [op |-> "aiFixTimeout"]
    /\ dashboardFrame
    /\ UNCHANGED <<validationResults, selectedError, editingCell>>

\* the edit button of an issue card that is not fixed; it shows on mouse hover
\* only, which the overlay of showAiFixer prevents
handleCellEdit(error) ==
    /\ ~showAiFixer
    /\ errorKey(error.row_index, error.column) \notin fixedErrors
    /\ editingCell' = [row |-> error.row_index, column |-> error.column, value |-> error.value]
    /\ call' = [op |-> "handleCellEdit"]
    /\ dashboardFrame
    /\ UNCHANGED <<validationResults, selectedError, fixedErrors, fixTimers, showAiFixer>>

\* Enter in the edit input, or its save button
saveEdit ==
    /\ editingCell # NoCell
    /\ fixedErrors' = fixedErrors \cup {errorKey(editingCell.row, editingCell.column)}
    /\ editingCell' = NoCell
    /\ call' = [op |-> "saveEdit", key |-> errorKey(editingCell.row, editingCell.column)]
    /\ dashboardFrame
    /\ UNCHANGED <<validationResults, selectedError, fixTimers, showAiFixer>>

\* Escape in the edit input, or its cancel button
cancelEdit ==
    /\ editingCell # NoCell
    /\ editingCell' = NoCell
    /\ call' = [op |-> "cancelEdit"]
    /\ dashboardFrame
    /\ UNCHANGED <<validationResults, selectedError, fixedErrors, fixTimers, showAiFixer>>

-----------------------------------------------------------------------------
(* SpecDashboard: the validation tab is open on an uploaded file with one   *)
(* error and one warning                                                   *)

\* "Phone,Email\n123,bad"
TXT_issues ==
    <<"P", "h", "o", "n", "e", ",", "E", "m", "a", "i", "l", "\n",
      "1", "2", "3", ",", "b", "a", "d">>

InitDashboard ==
    /\ currentFileData = FileData(parseCSV(TXT_issues).headers, parseCSV(TXT_issues).data,
                                  EmptyObj, <<>>)
    /\ mappings = EmptyObj
    /\ selectedSource = <<>>
    /\ draggedItem = <<>>
    /\ suggestPending = FALSE
    /\ component = "none"
    /\ currentJob = uploadJob([name |-> N_a_csv, text |-> TXT_issues], TRUE)
    /\ validationResults = NoResults
    /\ activeTab = "validation"
    /\ selectedError = NoIssue
    /\ fixedErrors = {}
    /\ editingCell = NoCell
    /\ fixTimers = {}
    /\ showAiFixer = FALSE
    /\ call = NoCall

ValidateMutate == validateMutate

SelectError == \E i \in DOMAIN filteredIssues : selectError(filteredIssues[i])

HandleFixError == handleFixError

HandleAiFixAll == handleAiFixAll

AiFixTimeout == \E timer \in fixTimers : aiFixTimeout(timer)

HandleCellEdit == \E i \in DOMAIN filteredIssues : handleCellEdit(filteredIssues[i])

SaveEdit == saveEdit

CancelEdit == cancelEdit

NextDashboard ==
    \/ ValidateMutate
    \/ SelectError
    \/ HandleFixError
    \/ HandleAiFixAll
    \/ AiFixTimeout
    \/ HandleCellEdit
    \/ SaveEdit
    \/ CancelEdit

SpecDashboard == InitDashboard /\ [][NextDashboard]_vars

\* C26: the set of fixed issue keys only grows: a key added by Apply AI Fix or by
\* saving an inline edit stays in the set at every later step, also when the
\* delayed callback of an earlier AI Fix All runs after the key was added.
C26_FixedKeysOnlyGrow ==
    [][fixedErrors \subseteq fixedErrors']_vars

-----------------------------------------------------------------------------
(* parseExcelFile (csv-parser.ts): the rows of the selected sheet, as the   *)
(* spreadsheet library returns them (an array of arrays, '' for an empty    *)
(* cell), turned into headers and row objects                               *)

\* row[index] || '': a cell past the end of the row is undefined
cellAt(row, index) == IF index \in DOMAIN row THEN row[index] ELSE <<>>

\* jsonData[0].map(h => String(h || '').trim()).filter(h => h !== '')
excelHeaders(jsonData) ==
    SelectSeq([c \in DOMAIN jsonData[1] |-> trim(jsonData[1][c])], LAMBDA h : h # <<>>)

\* headers.forEach((header, index) => { rowData[header] = String(row[index] || '').trim() }),
\* for the first n headers
RECURSIVE excelRowData(_, _, _)
excelRowData(headers, row, n) ==
    IF n = 0 THEN EmptyObj
    ELSE ObjSet(excelRowData(headers, row, n - 1), headers[n], trim(cellAt(row, n)))

\* the loop over jsonData[1..]: a row of length 0 is skipped
RECURSIVE excelRows(_, _, _)
excelRows(headers, jsonData, i) ==
    IF i > Len(jsonData) THEN <<>>
    ELSE IF Len(jsonData[i]) > 0
         THEN <<excelRowData(headers, jsonData[i], Len(headers))>>
                  \o excelRows(headers, jsonData, i + 1)
         ELSE excelRows(headers, jsonData, i + 1)

\* parseExcelFile, from the rows of the selected sheet on
parseExcelFile(jsonData) ==
    IF Len(jsonData) = 0
    THEN [status |-> "rejected", error |-> "Empty Excel file"]
    ELSE [status |-> "resolved",
          headers |-> excelHeaders(jsonData),
          data |-> excelRows(excelHeaders(jsonData), jsonData, 2),
          totalRows |-> Len(excelRows(excelHeaders(jsonData), jsonData, 2))]

-----------------------------------------------------------------------------
(* SpecExcel: parseExcelFile applied to small rectangular sheets whose      *)
(* header row may hold empty cells                                         *)

MaxSheetCols == 2
MaxSheetRows == 2

X_a == <<"a">>
X_b_pad == <<"b", " ">>
X_x == <<"x">>
X_y_pad == <<" ", "y">>

HeaderCellPool == {<<>>, X_a, X_b_pad}
DataCellPool == {X_x, X_y_pad}

\* a sheet of w columns: a header row and up to MaxSheetRows data rows
SheetsOfWidth(w) ==
    {<<h>> \o rows : h \in [1..w -> HeaderCellPool],
                     rows \in SeqsUpTo([1..w -> DataCellPool], MaxSheetRows)}

SheetPool == {<<>>} \cup UNION {SheetsOfWidth(w) : w \in 1..MaxSheetCols}

InitExcel ==
    /\ currentFileData = NoFileData
    /\ mappings = EmptyObj
    /\ selectedSource = <<>>
    /\ draggedItem = <<>>
    /\ suggestPending = FALSE
    /\ component = "none"
    /\ appIdle
    /\ \E jsonData \in SheetPool : call = [op |-> "sheetRead", jsonData |-> jsonData]

ParseExcel ==
    /\ call.op = "sheetRead"
    /\ call' = [op |-> "parseExcelFile", jsonData |-> call.jsonData,
                result |-> parseExcelFile(call.jsonData)]
    /\ UNCHANGED <<currentFileData, uiVars>>

NextExcel == ParseExcel

SpecExcel == InitExcel /\ [][NextExcel]_vars

\* C30: parseExcelFile keeps every cell under its own column's header: for every
\* data row and every non-empty header h standing at sheet column c of the header
\* row, row[h] is the trimmed text of that row's cell at column c, also when empty
\* header cells stand before c.
C30_CellsUnderOwnHeader ==
    (call.op = "parseExcelFile" /\ call.result.status = "resolved") =>
        \A r \in 2..Len(call.jsonData) :
            \A c \in DOMAIN call.jsonData[1] :
                trim(call.jsonData[1][c]) # <<>> =>
                    /\ ObjHas(call.result.data[r - 1], trim(call.jsonData[1][c]))
                    /\ ObjGet(call.result.data[r - 1], trim(call.jsonData[1][c]))
                           = trim(call.jsonData[r][c])

====
